---- MODULE Spec2Model ----
(***************************************************************************)
(* ChallengeEscrow (src/contracts/ChallengeEscrow.sol): the escrow ledger  *)
(* and guarantor-voting state machine, one action per external function.   *)
(* A call that reverts leaves the contract storage and the token balances  *)
(* as they were; the model records the outcome of the latest call in       *)
(* `last` so that the named error of a reverting call can be stated.       *)
(*                                                                         *)
(* Token quantities are uint256 amounts of the 6-decimal asset.  TLC's     *)
(* integers are 32 bits wide and MAX_DEPOSIT is 10000 * 10**6, so a        *)
(* quantity q is kept as the pair <<q \div 10**6, q % 10**6>> and all      *)
(* arithmetic on quantities is exact.                                      *)
(***************************************************************************)
EXTENDS Integers, Sequences, FiniteSets, TLC

VARIABLES
    now,            \* block.timestamp
    challenges,     \* mapping(bytes32 => Challenge)
    votingStates,   \* mapping(bytes32 => VotingState)
    platformFeeBps, \* uint256 platformFeeBps
    feeRecipient,   \* address feeRecipient
    treasury,       \* address treasury
    balance,        \* usdcToken balances of the accounts involved
    transfers,      \* per challenge: the outbound safeTransfer calls made for it
    last,           \* the latest call: operation, id, msg.sender and outcome
    env             \* the input universe of the run (fixed by Init)

vars == <<now, challenges, votingStates, platformFeeBps, feeRecipient,
          treasury, balance, transfers, last, env>>

----------------------------------------------------------------------------
(* Identities *)

ZERO == "ZERO"
ESCROW == "ESCROW"
ADMIN == "A"
USER == "U"
STRANGER == "X"
TREASURY == "T"

GuarantorPool == <<"G1", "G2", "G3", "G4", "G5", "G6", "G7", "G8", "G9", "G10", "G11">>

Prefix(n) == SubSeq(GuarantorPool, 1, n)

Range(s) == {s[i] : i \in 1..Len(s)}

Address == {ZERO, ADMIN, USER, STRANGER, TREASURY} \cup Range(GuarantorPool)

Accounts == {ESCROW, USER, ADMIN, TREASURY}

AllIds == {1, 2}

----------------------------------------------------------------------------
(* Program constants *)

ACTIVE == "ACTIVE"
COMPLETED == "COMPLETED"
FAILED_PENDING_INSURANCE == "FAILED_PENDING_INSURANCE"
REMEDIATION_ACTIVE == "REMEDIATION_ACTIVE"
FAILED_FINAL == "FAILED_FINAL"

ChallengeState == {ACTIVE, COMPLETED, FAILED_PENDING_INSURANCE, REMEDIATION_ACTIVE, FAILED_FINAL}

VOTING_PERIOD == 86400
REMEDIATION_PERIOD == 604800
DECIMALS_UNIT == 1000000
BPS_DENOMINATOR == 10000
MAX_FEE_BPS == 1000
MAX_GUARANTORS == 10

----------------------------------------------------------------------------
(* Exact arithmetic on token quantities <<whole, micro>> *)

Qty(whole, micro) == <<whole, micro>>

QZero == Qty(0, 0)

QAdd(a, b) ==
    LET s == a[2] + b[2]
    IN  Qty(a[1] + b[1] + (s \div DECIMALS_UNIT), s % DECIMALS_UNIT)

QSub(a, b) ==
    LET s == a[2] - b[2]
    IN  IF s >= 0 THEN Qty(a[1] - b[1], s)
                  ELSE Qty(a[1] - b[1] - 1, s + DECIMALS_UNIT)

QLt(a, b) == a[1] < b[1] \/ (a[1] = b[1] /\ a[2] < b[2])

QLe(a, b) == ~QLt(b, a)

MIN_DEPOSIT == Qty(1, 0)
MAX_DEPOSIT == Qty(10000, 0)

\* The division done before the multiplication.
FeeOf_DivideFirst(amount, bps) ==
    LET n == ((amount[1] * (DECIMALS_UNIT \div BPS_DENOMINATOR))
              + (amount[2] \div BPS_DENOMINATOR)) * bps
    IN  Qty(n \div DECIMALS_UNIT, n % DECIMALS_UNIT)

\* (amount * bps) / 10000 in uint256 (no overflow there: amount <= 2 * 10**10).
\* With amount = w * 10**6 + m the product is w * bps * 10**6 + m * bps, and
\* 10**6 is a multiple of 10000, so the floor is w * bps * 100 + (m * bps) \div 10000.
FeeOf(amount, bps) ==
    LET n == amount[1] * bps * (DECIMALS_UNIT \div BPS_DENOMINATOR)
             + ((amount[2] * bps) \div BPS_DENOMINATOR)
    IN  Qty(n \div DECIMALS_UNIT, n % DECIMALS_UNIT)

----------------------------------------------------------------------------
(* Storage *)

NoChallenge ==
    [user |-> ZERO, amount |-> QZero, state |-> ACTIVE, createdAt |-> 0,
     endTime |-> 0, votingDeadline |-> 0, remediationDeadline |-> 0,
     metadataUri |-> ""]

\* The two mapping(address => bool) of a VotingState are kept as the sets of
\* addresses they map to true.
NoVotingState ==
    [guarantors |-> <<>>,
     hasVoted |-> {},
     voteValue |-> {},
     yesVotes |-> 0, noVotes |-> 0, requiredVotes |-> 0]

NoCall == [op |-> "constructor", id |-> 0, caller |-> ADMIN, err |-> "ok"]

Call(op, id, caller, err) == [op |-> op, id |-> id, caller |-> caller, err |-> err]

Storage == <<challenges, votingStates, platformFeeBps, feeRecipient, treasury,
             balance, transfers>>

\* A reverted transaction: nothing but the record of the call changes.
Revert(op, id, caller, err) ==
    /\ last' = Call(op, id, caller, err)
    /\ UNCHANGED <<now, env, Storage>>

----------------------------------------------------------------------------
(* Helpers of the contract code *)

Exists(id) == challenges[id].user # ZERO

RequiredVotes_RoundedHalf(n) == (n + 1) \div 2

\* line 197: vs.requiredVotes = (_guarantors.length / 2) + 1
RequiredVotes(n) == (n \div 2) + 1

AmountOutOfBounds_ExclusiveMax(amount) ==
    QLt(amount, MIN_DEPOSIT) \/ QLe(MAX_DEPOSIT, amount)

\* line 165: _amount < MIN_DEPOSIT || _amount > MAX_DEPOSIT
AmountOutOfBounds(amount) == QLt(amount, MIN_DEPOSIT) \/ QLt(MAX_DEPOSIT, amount)

ValidGuarantors_AllowSelf(gs, sender) ==
    \A i \in 1..Len(gs) :
        /\ gs[i] # ZERO
        /\ \A j \in (i + 1)..Len(gs) : gs[i] # gs[j]

\* lines 170-177: no guarantor is msg.sender or address(0), none occurs twice
ValidGuarantors(gs, sender) ==
    \A i \in 1..Len(gs) :
        /\ gs[i] # sender
        /\ gs[i] # ZERO
        /\ \A j \in (i + 1)..Len(gs) : gs[i] # gs[j]

\* lines 252-258 and 325-331: the linear scan of vs.guarantors
IsGuarantor(vs, sender) == \E i \in 1..Len(vs.guarantors) : vs.guarantors[i] = sender

AlreadyVoted_Never(vs, sender) == FALSE

\* line 249: vs.hasVoted[msg.sender]
AlreadyVoted(vs, sender) == sender \in vs.hasVoted

NotEnded_Unchecked(c) == FALSE

NotEnded_Inclusive(c) == now <= c.endTime

\* line 220: block.timestamp < c.endTime
NotEnded(c) == now < c.endTime

VotingPeriodOver_Inclusive(c) == now >= c.votingDeadline

\* line 248: block.timestamp > c.votingDeadline
VotingPeriodOver(c) == now > c.votingDeadline

VotingPeriodActive_Always(c) == TRUE

VotingPeriodActive_Strict(c) == now < c.votingDeadline

\* line 300: block.timestamp <= c.votingDeadline
VotingPeriodActive(c) == now <= c.votingDeadline

CanUserComplete_AnyTime(c, sender) == sender = c.user

\* line 334: msg.sender == c.user && block.timestamp >= c.endTime
CanUserComplete(c, sender) == sender = c.user /\ now >= c.endTime

VotableState_OrRemediation(c) ==
    c.state \in {FAILED_PENDING_INSURANCE, REMEDIATION_ACTIVE}

\* line 245: castVote requires FAILED_PENDING_INSURANCE
VotableState(c) == c.state = FAILED_PENDING_INSURANCE

ReportableState_OrRemediation(c) == c.state \in {ACTIVE, REMEDIATION_ACTIVE}

ReportableState_NotTerminal(c) == c.state \notin {COMPLETED, FAILED_FINAL}

\* line 218: reportFailure requires ACTIVE
ReportableState(c) == c.state = ACTIVE

CompletableState_UntilDeadline(c) ==
    c.state = ACTIVE \/ (c.state = REMEDIATION_ACTIVE /\ now <= c.remediationDeadline)

CompletableState_NotFailed(c) == c.state # FAILED_FINAL

\* line 320: completeChallenge requires ACTIVE or REMEDIATION_ACTIVE
CompletableState(c) == c.state = ACTIVE \/ c.state = REMEDIATION_ACTIVE

YesThresholdReached_Unanimous(vs) == vs.yesVotes >= Len(vs.guarantors)

YesThresholdReached_Strict(vs) == vs.yesVotes > vs.requiredVotes

\* line 280: vs.yesVotes >= vs.requiredVotes
YesThresholdReached(vs) == vs.yesVotes >= vs.requiredVotes

NoThresholdReached_AtLeast(vs) ==
    vs.noVotes >= Len(vs.guarantors) - vs.requiredVotes

NoThresholdReached_OffByOne(vs) ==
    vs.noVotes > (Len(vs.guarantors) - vs.requiredVotes) + 1

\* line 282: vs.noVotes > vs.guarantors.length - vs.requiredVotes
NoThresholdReached(vs) == vs.noVotes > Len(vs.guarantors) - vs.requiredVotes

RecordVote_AlwaysYes(vs, sender, approveRedemption) ==
    [vs EXCEPT !.hasVoted = @ \cup {sender},
               !.voteValue = IF approveRedemption THEN @ \cup {sender} ELSE @ \ {sender},
               !.yesVotes = @ + 1]

\* lines 262-269: the ballot is stored and the matching tally incremented
RecordVote(vs, sender, approveRedemption) ==
    [vs EXCEPT !.hasVoted = @ \cup {sender},
               !.voteValue = IF approveRedemption THEN @ \cup {sender} ELSE @ \ {sender},
               !.yesVotes = IF approveRedemption THEN @ + 1 ELSE @,
               !.noVotes = IF approveRedemption THEN @ ELSE @ + 1]

StartRemediation_MovesEndTime(c) ==
    [c EXCEPT !.state = REMEDIATION_ACTIVE,
              !.remediationDeadline = now + REMEDIATION_PERIOD,
              !.endTime = now + REMEDIATION_PERIOD]

\* lines 452-460: _startRemediation
StartRemediation(c) ==
    [c EXCEPT !.state = REMEDIATION_ACTIVE,
              !.remediationDeadline = now + REMEDIATION_PERIOD]

\* lines 462-466: _finalizeFailed, the state change
FinalizeFailed(c) == [c EXCEPT !.state = FAILED_FINAL]

Payment(to, amount) == [to |-> to, amount |-> amount]

ForfeitPayments_AtCreation(c) == <<Payment(TREASURY, c.amount)>>

ForfeitPayments_MinusFee(c) ==
    IF treasury # ZERO
    THEN <<Payment(treasury, QSub(c.amount, FeeOf(c.amount, platformFeeBps)))>>
    ELSE <<>>

ForfeitPayments_Refund(c) ==
    IF treasury # ZERO THEN <<Payment(c.user, c.amount)>> ELSE <<>>

\* lines 467-470: _finalizeFailed, the transfers it makes
ForfeitPayments(c) ==
    IF treasury # ZERO THEN <<Payment(treasury, c.amount)>> ELSE <<>>

CompletePayments_WaivedIfUnset(c) ==
    LET fee == IF feeRecipient = ZERO THEN QZero ELSE FeeOf(c.amount, platformFeeBps)
        userAmount == QSub(c.amount, fee)
    IN  (IF QLt(QZero, fee) THEN <<Payment(feeRecipient, fee)>> ELSE <<>>)
        \o <<Payment(c.user, userAmount)>>

CompletePayments_NoDeduction(c) ==
    LET fee == FeeOf(c.amount, platformFeeBps)
    IN  (IF QLt(QZero, fee) /\ feeRecipient # ZERO
            THEN <<Payment(feeRecipient, fee)>> ELSE <<>>)
        \o <<Payment(c.user, c.amount)>>

\* lines 341-348: completeChallenge, the transfers it makes
CompletePayments(c) ==
    LET fee == FeeOf(c.amount, platformFeeBps)
        userAmount == QSub(c.amount, fee)
    IN  (IF QLt(QZero, fee) /\ feeRecipient # ZERO
            THEN <<Payment(feeRecipient, fee)>> ELSE <<>>)
        \o <<Payment(c.user, userAmount)>>

----------------------------------------------------------------------------
(* The token: usdcToken.safeTransferFrom / safeTransfer.  A transfer the   *)
(* token refuses (tokenOk = FALSE: paused token, missing allowance,        *)
(* blocked recipient) or that exceeds the sender's balance reverts the     *)
(* whole transaction.                                                      *)

RECURSIVE PayOut(_, _)
PayOut(bal, pays) ==
    IF pays = <<>> THEN bal
    ELSE LET p == Head(pays)
         IN  PayOut([bal EXCEPT ![ESCROW] = QSub(@, p.amount),
                                ![p.to] = QAdd(@, p.amount)], Tail(pays))

RECURSIVE Affordable(_, _)
Affordable(bal, pays) ==
    \/ pays = <<>>
    \/ /\ QLe(Head(pays).amount, bal[ESCROW])
       /\ Affordable([bal EXCEPT ![ESCROW] = QSub(@, Head(pays).amount)], Tail(pays))

TransferFromSucceeds_Unchecked(sender, amount, tokenOk) == TRUE

\* line 180: usdcToken.safeTransferFrom(msg.sender, address(this), _amount)
\* reverts unless the token accepts the transfer and the sender holds the amount
TransferFromSucceeds(sender, amount, tokenOk) == tokenOk /\ QLe(amount, balance[sender])

TransfersSucceed_Ignored(pays, tokenOk) == TRUE

\* lines 346-348, 468: usdcToken.safeTransfer reverts unless the token accepts
\* the transfer and custody holds the amount
TransfersSucceed(pays, tokenOk) == pays = <<>> \/ (tokenOk /\ Affordable(balance, pays))

Commit_EveryChallenge(op, id, caller, c2, vs2, pays, tokenOk) ==
    IF ~TransfersSucceed(pays, tokenOk)
    THEN Revert(op, id, caller, "TransferFailed")
    ELSE /\ challenges' = [i \in AllIds |-> IF Exists(i) THEN c2 ELSE challenges[i]]
         /\ votingStates' = [votingStates EXCEPT ![id] = vs2]
         /\ balance' = PayOut(balance, pays)
         /\ transfers' = [transfers EXCEPT ![id] = @ \o pays]
         /\ last' = Call(op, id, caller, "ok")
         /\ UNCHANGED <<now, env, platformFeeBps, feeRecipient, treasury>>

\* The end of a call that changed challenge `id`: its transfers are made and,
\* if one of them fails, the whole call reverts.
Commit(op, id, caller, c2, vs2, pays, tokenOk) ==
    IF ~TransfersSucceed(pays, tokenOk)
    THEN Revert(op, id, caller, "TransferFailed")
    ELSE /\ challenges' = [challenges EXCEPT ![id] = c2]
         /\ votingStates' = [votingStates EXCEPT ![id] = vs2]
         /\ balance' = PayOut(balance, pays)
         /\ transfers' = [transfers EXCEPT ![id] = @ \o pays]
         /\ last' = Call(op, id, caller, "ok")
         /\ UNCHANGED <<now, env, platformFeeBps, feeRecipient, treasury>>

----------------------------------------------------------------------------
(* External functions *)

\* createChallenge (lines 157-207), msg.sender = sender.  The checked addition
\* block.timestamp + _duration cannot overflow for the durations offered.
CreateChallenge(id, sender, gs, amount, duration, uri, tokenOk) ==
    LET op == "createChallenge"
        c2 == [user |-> sender, amount |-> amount, state |-> ACTIVE,
               createdAt |-> now, endTime |-> now + duration,
               votingDeadline |-> 0, remediationDeadline |-> 0,
               metadataUri |-> uri]
        vs2 == [votingStates[id] EXCEPT !.guarantors = gs,
                                        !.requiredVotes = RequiredVotes(Len(gs))]
    IN  IF AmountOutOfBounds(amount)
        THEN Revert(op, id, sender, "InvalidAmount")
        ELSE IF Len(gs) = 0 \/ Len(gs) > MAX_GUARANTORS
        THEN Revert(op, id, sender, "InvalidGuarantors")
        ELSE IF challenges[id].user # ZERO
        THEN Revert(op, id, sender, "InvalidState")
        ELSE IF ~ValidGuarantors(gs, sender)
        THEN Revert(op, id, sender, "InvalidGuarantors")
        ELSE IF ~TransferFromSucceeds(sender, amount, tokenOk)
        THEN Revert(op, id, sender, "TransferFailed")
        ELSE /\ balance' = [balance EXCEPT ![sender] = QSub(@, amount),
                                           ![ESCROW] = QAdd(@, amount)]
             /\ challenges' = [challenges EXCEPT ![id] = c2]
             /\ votingStates' = [votingStates EXCEPT ![id] = vs2]
             /\ last' = Call(op, id, sender, "ok")
             /\ UNCHANGED <<now, env, platformFeeBps, feeRecipient, treasury, transfers>>

ReportFailure_Permissionless(id, sender) ==
    LET op == "reportFailure"
        c == challenges[id]
    IN  IF c.user = ZERO THEN Revert(op, id, sender, "ChallengeNotFound")
        ELSE IF ~ReportableState(c) THEN Revert(op, id, sender, "InvalidState")
        ELSE IF NotEnded(c) THEN Revert(op, id, sender, "ChallengeNotEnded")
        ELSE Commit(op, id, sender,
                    [c EXCEPT !.state = FAILED_PENDING_INSURANCE,
                              !.votingDeadline = now + VOTING_PERIOD],
                    votingStates[id], <<>>, TRUE)

\* reportFailure (lines 214-233)
ReportFailure(id, sender) ==
    LET op == "reportFailure"
        c == challenges[id]
    IN  IF c.user = ZERO THEN Revert(op, id, sender, "ChallengeNotFound")
        ELSE IF ~ReportableState(c) THEN Revert(op, id, sender, "InvalidState")
        ELSE IF sender # c.user THEN Revert(op, id, sender, "NotAuthorized")
        ELSE IF NotEnded(c) THEN Revert(op, id, sender, "ChallengeNotEnded")
        ELSE Commit(op, id, sender,
                    [c EXCEPT !.state = FAILED_PENDING_INSURANCE,
                              !.votingDeadline = now + VOTING_PERIOD],
                    votingStates[id], <<>>, TRUE)

CastVote_Deferred(id, sender, approveRedemption, tokenOk) ==
    LET op == "castVote"
        c == challenges[id]
        vs == votingStates[id]
        vs2 == RecordVote(vs, sender, approveRedemption)
    IN  IF c.user = ZERO THEN Revert(op, id, sender, "ChallengeNotFound")
        ELSE IF ~VotableState(c) THEN Revert(op, id, sender, "InvalidState")
        ELSE IF VotingPeriodOver(c) THEN Revert(op, id, sender, "VotingPeriodEnded")
        ELSE IF AlreadyVoted(vs, sender) THEN Revert(op, id, sender, "AlreadyVoted")
        ELSE IF ~IsGuarantor(vs, sender) THEN Revert(op, id, sender, "NotGuarantor")
        ELSE Commit(op, id, sender, c, vs2, <<>>, tokenOk)

\* castVote (lines 240-286)
CastVote(id, sender, approveRedemption, tokenOk) ==
    LET op == "castVote"
        c == challenges[id]
        vs == votingStates[id]
        vs2 == RecordVote(vs, sender, approveRedemption)
    IN  IF c.user = ZERO THEN Revert(op, id, sender, "ChallengeNotFound")
        ELSE IF ~VotableState(c) THEN Revert(op, id, sender, "InvalidState")
        ELSE IF VotingPeriodOver(c) THEN Revert(op, id, sender, "VotingPeriodEnded")
        ELSE IF AlreadyVoted(vs, sender) THEN Revert(op, id, sender, "AlreadyVoted")
        ELSE IF ~IsGuarantor(vs, sender) THEN Revert(op, id, sender, "NotGuarantor")
        ELSE IF YesThresholdReached(vs2)
        THEN Commit(op, id, sender, StartRemediation(c), vs2, <<>>, tokenOk)
        ELSE IF NoThresholdReached(vs2)
        THEN Commit(op, id, sender, FinalizeFailed(c), vs2, ForfeitPayments(c), tokenOk)
        ELSE Commit(op, id, sender, c, vs2, <<>>, tokenOk)

\* finalizeVoting (lines 292-308)
FinalizeVoting(id, sender, tokenOk) ==
    LET op == "finalizeVoting"
        c == challenges[id]
        vs == votingStates[id]
    IN  IF c.user = ZERO THEN Revert(op, id, sender, "ChallengeNotFound")
        ELSE IF c.state # FAILED_PENDING_INSURANCE THEN Revert(op, id, sender, "InvalidState")
        ELSE IF VotingPeriodActive(c) THEN Revert(op, id, sender, "VotingPeriodActive")
        ELSE IF YesThresholdReached(vs)
        THEN Commit(op, id, sender, StartRemediation(c), vs, <<>>, tokenOk)
        ELSE Commit(op, id, sender, FinalizeFailed(c), vs, ForfeitPayments(c), tokenOk)

\* completeChallenge (lines 315-352)
CompleteChallenge(id, sender, tokenOk) ==
    LET op == "completeChallenge"
        c == challenges[id]
        vs == votingStates[id]
        canUserComplete == CanUserComplete(c, sender)
    IN  IF c.user = ZERO THEN Revert(op, id, sender, "ChallengeNotFound")
        ELSE IF ~CompletableState(c)
        THEN Revert(op, id, sender, "InvalidState")
        ELSE IF ~IsGuarantor(vs, sender) /\ ~canUserComplete
        THEN Revert(op, id, sender, "NotAuthorized")
        ELSE Commit(op, id, sender, [c EXCEPT !.state = COMPLETED], vs,
                    CompletePayments(c), tokenOk)

\* finalizeRemediation (lines 358-368)
FinalizeRemediation(id, sender, tokenOk) ==
    LET op == "finalizeRemediation"
        c == challenges[id]
    IN  IF c.user = ZERO THEN Revert(op, id, sender, "ChallengeNotFound")
        ELSE IF c.state # REMEDIATION_ACTIVE THEN Revert(op, id, sender, "InvalidState")
        ELSE IF now <= c.remediationDeadline
        THEN Revert(op, id, sender, "RemediationPeriodEnded")
        ELSE Commit(op, id, sender, FinalizeFailed(c), votingStates[id],
                    ForfeitPayments(c), tokenOk)

\* onlyOwner (Ownable): any caller but the contract owner is refused
OnlyOwner(sender) == sender = ADMIN

FeeAllowed_Unbounded(feeBps) == TRUE

\* setPlatformFee: require(_feeBps <= 1000, "Fee too high") (line 432)
FeeAllowed(feeBps) == feeBps <= MAX_FEE_BPS

SetPlatformFee_Retroactive(sender, feeBps) ==
    LET op == "setPlatformFee"
    IN  IF ~OnlyOwner(sender) THEN Revert(op, 0, sender, "OwnableUnauthorizedAccount")
        ELSE IF ~FeeAllowed(feeBps) THEN Revert(op, 0, sender, "Fee too high")
        ELSE /\ platformFeeBps' = feeBps
             /\ transfers' =
                   [id \in AllIds |->
                       IF challenges[id].state = COMPLETED /\ feeBps > platformFeeBps
                       THEN transfers[id] \o
                            <<Payment(feeRecipient,
                                      QSub(FeeOf(challenges[id].amount, feeBps),
                                           FeeOf(challenges[id].amount, platformFeeBps)))>>
                       ELSE transfers[id]]
             /\ last' = Call(op, 0, sender, "ok")
             /\ UNCHANGED <<now, env, challenges, votingStates, feeRecipient,
                            treasury, balance>>

\* setPlatformFee (lines 431-434)
SetPlatformFee(sender, feeBps) ==
    LET op == "setPlatformFee"
    IN  IF ~OnlyOwner(sender) THEN Revert(op, 0, sender, "OwnableUnauthorizedAccount")
        ELSE IF ~FeeAllowed(feeBps) THEN Revert(op, 0, sender, "Fee too high")
        ELSE /\ platformFeeBps' = feeBps
             /\ last' = Call(op, 0, sender, "ok")
             /\ UNCHANGED <<now, env, challenges, votingStates, feeRecipient,
                            treasury, balance, transfers>>

\* setFeeRecipient (lines 439-441)
SetFeeRecipient(sender, recipient) ==
    LET op == "setFeeRecipient"
    IN  IF ~OnlyOwner(sender) THEN Revert(op, 0, sender, "OwnableUnauthorizedAccount")
        ELSE /\ feeRecipient' = recipient
             /\ last' = Call(op, 0, sender, "ok")
             /\ UNCHANGED <<now, env, challenges, votingStates, platformFeeBps,
                            treasury, balance, transfers>>

SetTreasury_Sweeps(sender, newTreasury) ==
    LET op == "setTreasury"
        unpaid == {id \in AllIds : /\ challenges[id].state = FAILED_FINAL
                                   /\ transfers[id] = <<>>
                                   /\ newTreasury # ZERO}
    IN  IF ~OnlyOwner(sender) THEN Revert(op, 0, sender, "OwnableUnauthorizedAccount")
        ELSE /\ treasury' = newTreasury
             /\ transfers' =
                   [id \in AllIds |->
                       IF id \in unpaid
                       THEN <<Payment(newTreasury, challenges[id].amount)>>
                       ELSE transfers[id]]
             /\ last' = Call(op, 0, sender, "ok")
             /\ UNCHANGED <<now, env, challenges, votingStates, platformFeeBps,
                            feeRecipient, balance>>

\* setTreasury (lines 446-448)
SetTreasury(sender, newTreasury) ==
    LET op == "setTreasury"
    IN  IF ~OnlyOwner(sender) THEN Revert(op, 0, sender, "OwnableUnauthorizedAccount")
        ELSE /\ treasury' = newTreasury
             /\ last' = Call(op, 0, sender, "ok")
             /\ UNCHANGED <<now, env, challenges, votingStates, platformFeeBps,
                            feeRecipient, balance, transfers>>

----------------------------------------------------------------------------
(* The clock: block.timestamp never decreases.  It advances to one of the  *)
(* instants at which some guard of some existing challenge changes value.  *)

Instants ==
    UNION {{challenges[id].endTime - 1, challenges[id].endTime,
            challenges[id].votingDeadline, challenges[id].votingDeadline + 1,
            challenges[id].remediationDeadline,
            challenges[id].remediationDeadline + 1} : id \in {i \in AllIds : Exists(i)}}

Tick_Eager(t) ==
    /\ t > now
    /\ now' = t
    /\ last' = Call("tick", 0, ZERO, "ok")
    /\ challenges' =
          [id \in AllIds |->
              IF challenges[id].state = FAILED_PENDING_INSURANCE /\ Exists(id)
                 /\ t > challenges[id].votingDeadline
              THEN FinalizeFailed(challenges[id]) ELSE challenges[id]]
    /\ UNCHANGED <<env, votingStates, platformFeeBps, feeRecipient, treasury,
                   balance, transfers>>

Tick(t) ==
    /\ t > now
    /\ now' = t
    /\ last' = Call("tick", 0, ZERO, "ok")
    /\ UNCHANGED <<env, Storage>>

----------------------------------------------------------------------------
(* Inputs and specifications *)

StartTime == 1000000

NumGuarantors == 3

THIRTY_DAYS == 30 * 86400

UserFunds == Qty(20000, 0)

\* The inputs the callers of the main specification choose from.
MainEnv ==
    [ids |-> {1},
     lists |-> {<<>>, Prefix(NumGuarantors)},
     amounts |-> {Qty(0, 999999), Qty(100, 0)},
     fees |-> {0, 250, 1001},
     feeRecipients |-> {ADMIN},
     treasuries |-> {ZERO, TREASURY},
     callers |-> {USER, "G1", "G2", "G3", STRANGER},
     admins |-> {ADMIN, STRANGER},
     tokenOks |-> BOOLEAN]

\* The contract after its constructor (lines 136-144) ran with a treasury and
\* an owner, who is also the first fee recipient; the user holds `funds`.
InitFunded(funds) ==
    /\ now = StartTime
    /\ challenges = [id \in AllIds |-> NoChallenge]
    /\ votingStates = [id \in AllIds |-> NoVotingState]
    /\ platformFeeBps = 0
    /\ feeRecipient = ADMIN
    /\ treasury = TREASURY
    /\ balance = [a \in Accounts |-> IF a = USER THEN funds ELSE QZero]
    /\ transfers = [id \in AllIds |-> <<>>]
    /\ last = NoCall

InitContract == InitFunded(UserFunds)

Init == InitContract /\ env = MainEnv

Next ==
    \/ \E id \in env.ids, gs \in env.lists, a \in env.amounts, ok \in env.tokenOks :
           CreateChallenge(id, USER, gs, a, THIRTY_DAYS, "ipfs://challenge", ok)
    \/ \E id \in env.ids, s \in env.callers : ReportFailure(id, s)
    \/ \E id \in env.ids, s \in env.callers, v \in BOOLEAN, ok \in env.tokenOks :
           CastVote(id, s, v, ok)
    \/ \E id \in env.ids, s \in env.callers, ok \in env.tokenOks : FinalizeVoting(id, s, ok)
    \/ \E id \in env.ids, s \in env.callers, ok \in env.tokenOks : CompleteChallenge(id, s, ok)
    \/ \E id \in env.ids, s \in env.callers, ok \in env.tokenOks :
           FinalizeRemediation(id, s, ok)
    \/ \E s \in env.admins, f \in env.fees : SetPlatformFee(s, f)
    \/ \E s \in env.admins, r \in env.feeRecipients : SetFeeRecipient(s, r)
    \/ \E s \in env.admins, t \in env.treasuries : SetTreasury(s, t)
    \/ \E t \in Instants : Tick(t)

Spec == Init /\ [][Next]_vars

\* Fee arithmetic: one deposit amount and one fee rate per run, every rate the
\* contract accepts and amounts at both bounds and off the round values.
FeeAmounts == {MIN_DEPOSIT, Qty(123, 456789), MAX_DEPOSIT}

FeeEnv(a, f) ==
    [ids |-> {1},
     lists |-> {Prefix(1)},
     amounts |-> {a},
     fees |-> {f},
     feeRecipients |-> {ADMIN},
     treasuries |-> {TREASURY},
     callers |-> {"G1"},
     admins |-> {ADMIN},
     tokenOks |-> {TRUE}]

InitFee == InitContract /\ env \in {FeeEnv(a, f) : a \in FeeAmounts, f \in 0..MAX_FEE_BPS}

SpecFee == InitFee /\ [][Next]_vars

\* Majority arithmetic: guarantor lists of every length from 0 to 11.
VoteEnv ==
    [ids |-> {1},
     lists |-> {Prefix(n) : n \in 0..(MAX_GUARANTORS + 1)},
     amounts |-> {Qty(100, 0)},
     fees |-> {0},
     feeRecipients |-> {ADMIN},
     treasuries |-> {TREASURY},
     callers |-> {USER, "G1", "G2", "G3"},
     admins |-> {ADMIN},
     tokenOks |-> {TRUE}]

InitVote == InitContract /\ env = VoteEnv

SpecVote == InitVote /\ [][Next]_vars

\* Early exit of the vote: lists of 3 and of 5 guarantors, four of whom call.
FiveEnv ==
    [ids |-> {1},
     lists |-> {Prefix(3), Prefix(5)},
     amounts |-> {Qty(100, 0)},
     fees |-> {0},
     feeRecipients |-> {ADMIN},
     treasuries |-> {TREASURY},
     callers |-> {USER, "G1", "G2", "G3", "G4"},
     admins |-> {ADMIN},
     tokenOks |-> {TRUE}]

InitFive == InitContract /\ env = FiveEnv

SpecFive == InitFive /\ [][Next]_vars

\* The voting record of a list gs after its first k guarantors voted in list
\* order, the first y of them yes and the others no (lines 195-197, 262-269).
RECURSIVE VotesCast(_, _, _)
VotesCast(gs, y, k) ==
    IF k = 0
    THEN [NoVotingState EXCEPT !.guarantors = gs, !.requiredVotes = RequiredVotes(Len(gs))]
    ELSE RecordVote(VotesCast(gs, y, k - 1), gs[k], k <= y)

\* The tallies <<n, yes, no>> of n guarantors that leave the vote open: castVote
\* found neither threshold reached (lines 280-285).
OpenTallies ==
    {t \in (1..MAX_GUARANTORS) \X (0..MAX_GUARANTORS) \X (0..MAX_GUARANTORS) :
        /\ t[2] + t[3] <= t[1]
        /\ ~YesThresholdReached(VotesCast(Prefix(t[1]), t[2], t[2] + t[3]))
        /\ ~NoThresholdReached(VotesCast(Prefix(t[1]), t[2], t[2] + t[3]))}

\* The callers of a vote of n guarantors of whom the first k have voted: the
\* user and the next two guarantors of the list.
TallyEnv(n, k) ==
    [ids |-> {1},
     lists |-> {Prefix(n)},
     amounts |-> {Qty(100, 0)},
     fees |-> {0},
     feeRecipients |-> {ADMIN},
     treasuries |-> {TREASURY},
     callers |-> {USER} \cup {Prefix(n)[i] : i \in {j \in {k + 1, k + 2} : j <= n}},
     admins |-> {ADMIN},
     tokenOks |-> {TRUE}]

\* A vote in progress, for every list length and every open tally: the state
\* the contract is in after the constructor, createChallenge(1, Prefix(n),
\* 100 USDC, 30 days) by the user at StartTime, reportFailure at endTime and
\* castVote by the first yes + no guarantors, all in the block of endTime.
InitTally ==
    \E t \in OpenTallies :
        LET gs == Prefix(t[1])
            k == t[2] + t[3]
            amount == Qty(100, 0)
            end == StartTime + THIRTY_DAYS
        IN  /\ now = end
            /\ challenges =
                  [id \in AllIds |->
                      IF id = 1
                      THEN [user |-> USER, amount |-> amount,
                            state |-> FAILED_PENDING_INSURANCE,
                            createdAt |-> StartTime, endTime |-> end,
                            votingDeadline |-> end + VOTING_PERIOD,
                            remediationDeadline |-> 0,
                            metadataUri |-> "ipfs://challenge"]
                      ELSE NoChallenge]
            /\ votingStates =
                  [id \in AllIds |-> IF id = 1 THEN VotesCast(gs, t[2], k) ELSE NoVotingState]
            /\ platformFeeBps = 0
            /\ feeRecipient = ADMIN
            /\ treasury = TREASURY
            /\ balance = [a \in Accounts |->
                             IF a = USER THEN QSub(UserFunds, amount)
                             ELSE IF a = ESCROW THEN amount ELSE QZero]
            /\ transfers = [id \in AllIds |-> <<>>]
            /\ last = IF k = 0 THEN Call("reportFailure", 1, USER, "ok")
                               ELSE Call("castVote", 1, gs[k], "ok")
            /\ env = TallyEnv(t[1], k)

SpecTally == InitTally /\ [][Next]_vars

\* Validation of createChallenge: guarantor lists that are empty, of 1, 10
\* and 11 entries, with the caller, with address(0) and with a repeated entry;
\* amounts below, at and above both deposit bounds.
CreateEnv ==
    [ids |-> {1},
     lists |-> {<<>>, Prefix(1), Prefix(MAX_GUARANTORS), Prefix(MAX_GUARANTORS + 1),
                <<USER, "G1">>, <<"G1", USER>>, <<"G1", ZERO>>,
                <<"G1", "G1">>, <<"G1", "G2", "G1">>},
     amounts |-> {QZero, Qty(0, 999999), MIN_DEPOSIT, MAX_DEPOSIT, Qty(10000, 1)},
     fees |-> {0},
     feeRecipients |-> {ADMIN},
     treasuries |-> {TREASURY},
     callers |-> {USER, "G1"},
     admins |-> {ADMIN},
     tokenOks |-> {TRUE}]

InitCreate == InitContract /\ env = CreateEnv

SpecCreate == InitCreate /\ [][Next]_vars

\* Two challenges in custody at once, of different amounts, with a fee.
TwoEnv ==
    [ids |-> {1, 2},
     lists |-> {Prefix(1)},
     amounts |-> {Qty(100, 0), Qty(250, 0)},
     fees |-> {250},
     feeRecipients |-> {ADMIN},
     treasuries |-> {TREASURY},
     callers |-> {USER},
     admins |-> {ADMIN},
     tokenOks |-> {TRUE}]

InitTwo == InitContract /\ env = TwoEnv

SpecTwo == InitTwo /\ [][Next]_vars

\* Two challenges and a user whose funds cover either deposit of 250 or two
\* deposits of 100, but not 250 and 100 together.
ScarceFunds == Qty(300, 0)

PairEnv ==
    [ids |-> {1, 2},
     lists |-> {Prefix(1)},
     amounts |-> {Qty(100, 0), Qty(250, 0)},
     fees |-> {0},
     feeRecipients |-> {ADMIN},
     treasuries |-> {TREASURY},
     callers |-> {USER},
     admins |-> {ADMIN},
     tokenOks |-> {TRUE}]

\* Two votes at once: the state of the contract after the constructor, two
\* createChallenge calls of 100 USDC by the user at StartTime and two
\* reportFailure calls at endTime; from here the guarantor calls as well.
InitPairVoting ==
    LET amount == Qty(100, 0)
        end == StartTime + THIRTY_DAYS
    IN  /\ now = end
        /\ challenges =
              [id \in AllIds |->
                  [user |-> USER, amount |-> amount,
                   state |-> FAILED_PENDING_INSURANCE,
                   createdAt |-> StartTime, endTime |-> end,
                   votingDeadline |-> end + VOTING_PERIOD,
                   remediationDeadline |-> 0,
                   metadataUri |-> "ipfs://challenge"]]
        /\ votingStates = [id \in AllIds |-> VotesCast(Prefix(1), 0, 0)]
        /\ platformFeeBps = 0
        /\ feeRecipient = ADMIN
        /\ treasury = TREASURY
        /\ balance = [a \in Accounts |->
                         IF a = USER THEN QSub(ScarceFunds, QAdd(amount, amount))
                         ELSE IF a = ESCROW THEN QAdd(amount, amount) ELSE QZero]
        /\ transfers = [id \in AllIds |-> <<>>]
        /\ last = Call("reportFailure", 2, USER, "ok")
        /\ env = [PairEnv EXCEPT !.callers = {USER, "G1"}]

InitPair == (InitFunded(ScarceFunds) /\ env = PairEnv) \/ InitPairVoting

SpecPair == InitPair /\ [][Next]_vars

\* Progress of the vote and of the remediation: the clock keeps advancing
\* while a deadline lies ahead, and a finalizeVoting or finalizeRemediation
\* call that would succeed, its transfer going through, is eventually made
\* (anyone may make it: lines 292 and 358 restrict no caller).
LiveEnv ==
    [ids |-> {1},
     lists |-> {Prefix(NumGuarantors)},
     amounts |-> {Qty(100, 0)},
     fees |-> {250},
     feeRecipients |-> {ADMIN},
     treasuries |-> {TREASURY},
     callers |-> {USER, "G1", "G2", STRANGER},
     admins |-> {ADMIN},
     tokenOks |-> BOOLEAN]

InitLive == InitContract /\ env = LiveEnv

ClockAdvances == \E t \in Instants : Tick(t)

FinalizeVotingSucceeds(id) ==
    \E s \in env.callers : FinalizeVoting(id, s, TRUE) /\ last'.err = "ok"

FinalizeRemediationSucceeds(id) ==
    \E s \in env.callers : FinalizeRemediation(id, s, TRUE) /\ last'.err = "ok"

SpecLive ==
    /\ InitLive
    /\ [][Next]_vars
    /\ WF_vars(ClockAdvances)
    /\ \A id \in AllIds : WF_vars(FinalizeVotingSucceeds(id))
    /\ \A id \in AllIds : WF_vars(FinalizeRemediationSucceeds(id))

\* Completion without a fee recipient: the administrator switches the fee
\* recipient between the zero address and an account, and the fee rate
\* between 0 and 250, around the completion of one challenge.
RecipientEnv ==
    [ids |-> {1},
     lists |-> {Prefix(1)},
     amounts |-> {Qty(100, 0), Qty(123, 456789)},
     fees |-> {0, 250},
     feeRecipients |-> {ZERO, ADMIN},
     treasuries |-> {TREASURY},
     callers |-> {USER, "G1"},
     admins |-> {ADMIN},
     tokenOks |-> {TRUE}]

InitRecipient == InitContract /\ env = RecipientEnv

SpecRecipient == InitRecipient /\ [][Next]_vars

\* A challenge nobody resolves: how long after endTime the clock stands while
\* the challenge is still ACTIVE (one second, past the voting and remediation
\* periods, a year).
IdleTimes == {1, VOTING_PERIOD + REMEDIATION_PERIOD + 1, 365 * 86400}

\* The administrator may change the fee rate and move the treasury to another
\* account while the challenge exists.
IdleEnv ==
    [ids |-> {1},
     lists |-> {Prefix(NumGuarantors)},
     amounts |-> {Qty(100, 0)},
     fees |-> {0, 250},
     feeRecipients |-> {ADMIN},
     treasuries |-> {ADMIN, TREASURY},
     callers |-> {USER, "G1", STRANGER},
     admins |-> {ADMIN},
     tokenOks |-> {TRUE}]

\* The state the contract is in after the constructor and createChallenge(1,
\* Prefix(NumGuarantors), 100 USDC, 30 days) by the user at StartTime, when
\* no call was made until the block at endTime + late: the challenge was
\* created at fee rate 0 with the treasury of the constructor.
InitIdleActive ==
    \E late \in IdleTimes :
        LET amount == Qty(100, 0)
            end == StartTime + THIRTY_DAYS
        IN  /\ now = end + late
            /\ challenges =
                  [id \in AllIds |->
                      IF id = 1
                      THEN [user |-> USER, amount |-> amount, state |-> ACTIVE,
                            createdAt |-> StartTime, endTime |-> end,
                            votingDeadline |-> 0, remediationDeadline |-> 0,
                            metadataUri |-> "ipfs://challenge"]
                      ELSE NoChallenge]
            /\ votingStates =
                  [id \in AllIds |->
                      IF id = 1 THEN VotesCast(Prefix(NumGuarantors), 0, 0)
                      ELSE NoVotingState]
            /\ platformFeeBps = 0
            /\ feeRecipient = ADMIN
            /\ treasury = TREASURY
            /\ balance = [a \in Accounts |->
                             IF a = USER THEN QSub(UserFunds, amount)
                             ELSE IF a = ESCROW THEN amount ELSE QZero]
            /\ transfers = [id \in AllIds |-> <<>>]
            /\ last = Call("tick", 0, ZERO, "ok")
            /\ env = IdleEnv

InitIdle == (InitContract /\ env = IdleEnv) \/ InitIdleActive

SpecIdle == InitIdle /\ [][Next]_vars

----------------------------------------------------------------------------
(* Vocabulary of the properties *)

Terminal(id) ==
    Exists(id) /\ challenges[id].state \in {COMPLETED, FAILED_FINAL}

\* The positions in the transfer log of challenge id that pay account a.
PaymentsTo(id, a) == {i \in 1..Len(transfers[id]) : transfers[id][i].to = a}

\* The payments made for challenge id in the current step.
NewPayments(id) == SubSeq(transfers'[id], Len(transfers[id]) + 1, Len(transfers'[id]))

\* The current step is a call on challenge id.
CalledOn(id) == last'.id = id /\ last' # last

AllowedTransitions ==
    {<<ACTIVE, FAILED_PENDING_INSURANCE>>, <<ACTIVE, COMPLETED>>,
     <<FAILED_PENDING_INSURANCE, REMEDIATION_ACTIVE>>,
     <<FAILED_PENDING_INSURANCE, FAILED_FINAL>>,
     <<REMEDIATION_ACTIVE, COMPLETED>>, <<REMEDIATION_ACTIVE, FAILED_FINAL>>}

----------------------------------------------------------------------------
(* C1: a challenge in a terminal state (COMPLETED or FAILED_FINAL) has had *)
(* exactly one disbursement of its deposit: either one payment to the      *)
(* owner (at most the amount) and none to the treasury, or one payment of  *)
(* the full amount to the treasury and none to the owner; never zero,      *)
(* never two, never both.                                                  *)
C1_DisbursedExactlyOnce ==
    \A id \in AllIds :
        Terminal(id) =>
            LET c == challenges[id]
                toOwner == PaymentsTo(id, c.user)
                toTreasury == PaymentsTo(id, TREASURY)
            IN  /\ Cardinality(toOwner) + Cardinality(toTreasury) = 1
                /\ \A i \in toOwner : QLe(transfers[id][i].amount, c.amount)
                /\ \A i \in toTreasury : transfers[id][i].amount = c.amount

(* C2 as stated: once a challenge is COMPLETED or FAILED_FINAL, every call *)
(* on its id fails with the state error InvalidState and changes nothing   *)
(* in storage or balances.                                                 *)
C2_TerminalCallsFailWithStateError ==
    [][\A id \in AllIds :
          (Terminal(id) /\ CalledOn(id)) =>
              (last'.err = "InvalidState" /\ UNCHANGED Storage)]_vars

(* C2 as amended: once a challenge is COMPLETED or FAILED_FINAL, every     *)
(* call on its id fails and changes nothing in storage or balances; the    *)
(* error is InvalidState, except that createChallenge, which validates its *)
(* amount and guarantor count before looking at the id, fails with         *)
(* InvalidAmount or InvalidGuarantors when those are invalid.              *)
C2_TerminalAbsorbing ==
    [][\A id \in AllIds :
          (Terminal(id) /\ CalledOn(id)) =>
              /\ UNCHANGED Storage
              /\ \/ last'.err = "InvalidState"
                 \/ /\ last'.op = "createChallenge"
                    /\ last'.err \in {"InvalidAmount", "InvalidGuarantors"}]_vars

C2_Witness ==
    /\ Terminal(1)
    /\ last.id = 1
    /\ last.op = "createChallenge"
    /\ last.err = "InvalidAmount"

(* C3: every change of a challenge's state is one of the six transitions   *)
(* of the state machine; in particular REMEDIATION_ACTIVE is entered only  *)
(* from FAILED_PENDING_VOTE and FAILED_FINAL never directly from ACTIVE.   *)
C3_TransitionsFollowStateMachine ==
    [][\A id \in AllIds :
          challenges'[id].state # challenges[id].state =>
              /\ Exists(id)
              /\ <<challenges[id].state, challenges'[id].state>> \in AllowedTransitions]_vars

C3_Witness ==
    /\ Exists(1)
    /\ challenges[1].state = FAILED_FINAL
    /\ challenges[1].remediationDeadline # 0

(* C4: the owner is paid for a challenge only in the step in which a       *)
(* successful completeChallenge moves that challenge to COMPLETED; in no   *)
(* other step does the owner's balance grow.                               *)
C4_OwnerPaidOnlyOnCompletion ==
    [][/\ \A id \in AllIds :
             (\E i \in 1..Len(NewPayments(id)) : NewPayments(id)[i].to = challenges[id].user) =>
                 /\ last'.op = "completeChallenge"
                 /\ last'.id = id
                 /\ last'.err = "ok"
                 /\ challenges[id].state # COMPLETED
                 /\ challenges'[id].state = COMPLETED
       /\ QLt(balance[USER], balance'[USER]) =>
             (last'.op = "completeChallenge" /\ last'.err = "ok")]_vars

C4_Witness ==
    /\ Exists(1)
    /\ challenges[1].state = COMPLETED
    /\ PaymentsTo(1, USER) # {}
    /\ challenges[1].remediationDeadline # 0

----------------------------------------------------------------------------
(* Reference arithmetic for C5: floor(amount * bps / 10000) by long         *)
(* multiplication on the base-10000 digits of the amount (least             *)
(* significant first); dividing by 10000 drops the lowest digit.            *)

Digits(q) ==
    <<q[2] % 10000, ((q[1] % 100) * 100) + (q[2] \div 10000), q[1] \div 100>>

TimesDigits(d, k) ==
    LET p0 == d[1] * k
        p1 == (d[2] * k) + (p0 \div 10000)
        p2 == (d[3] * k) + (p1 \div 10000)
    IN  <<p0 % 10000, p1 % 10000, p2 % 10000, p2 \div 10000>>

ReferenceFee(amount, bps) ==
    LET p == TimesDigits(Digits(amount), bps)
        n == p[2] + (p[3] * 10000) + (p[4] * 100000000)
    IN  Qty(n \div 1000000, n % 1000000)

(* C5: a successful completeChallenge pays the owner amount - fee with     *)
(* fee = floor(amount * feeBps / 10000), so that fee + payout = amount,    *)
(* for amounts in [MIN_DEPOSIT, MAX_DEPOSIT] and rates 0..1000; at rate 0  *)
(* the owner receives the full amount.                                     *)
C5_FeeAndPayoutSumToAmount ==
    (last.op = "completeChallenge" /\ last.err = "ok") =>
        LET c == challenges[last.id]
            log == transfers[last.id]
            fee == ReferenceFee(c.amount, platformFeeBps)
            payout == log[Len(log)]
        IN  /\ QLe(MIN_DEPOSIT, c.amount) /\ QLe(c.amount, MAX_DEPOSIT)
            /\ platformFeeBps \in 0..MAX_FEE_BPS
            /\ payout.to = c.user
            /\ QAdd(fee, payout.amount) = c.amount
            /\ payout.amount = QSub(c.amount, fee)
            /\ platformFeeBps = 0 => payout.amount = c.amount
            /\ log = IF fee # QZero /\ feeRecipient # ZERO
                        THEN <<Payment(feeRecipient, fee), payout>>
                        ELSE <<payout>>

C5_Witness ==
    /\ last.op = "completeChallenge"
    /\ last.err = "ok"
    /\ platformFeeBps = 7
    /\ challenges[1].amount = Qty(123, 456789)
    /\ transfers[1] = <<Payment(ADMIN, Qty(0, 86419)), Payment(USER, Qty(123, 370370))>>

(* C6: every step that moves a challenge into FAILED_FINAL while a         *)
(* treasury is configured makes exactly one transfer for it, the full      *)
(* amount to the treasury: no fee is deducted and nothing goes to the      *)
(* owner or the fee recipient.                                             *)
C6_ForfeitPaysTreasuryInFull ==
    [][\A id \in AllIds :
          (/\ challenges'[id].state = FAILED_FINAL
           /\ challenges[id].state # FAILED_FINAL
           /\ treasury # ZERO) =>
              /\ last'.op \in {"castVote", "finalizeVoting", "finalizeRemediation"}
              /\ NewPayments(id) = <<Payment(treasury, challenges[id].amount)>>
              /\ balance' = [balance EXCEPT
                                ![ESCROW] = QSub(@, challenges[id].amount),
                                ![treasury] = QAdd(@, challenges[id].amount)]]_vars

C6_Witness ==
    /\ challenges[1].state = FAILED_FINAL
    /\ last.op = "finalizeRemediation"
    /\ last.err = "ok"
    /\ platformFeeBps = 250
    /\ transfers[1] = <<Payment(TREASURY, Qty(100, 0))>>
    /\ balance[TREASURY] = Qty(100, 0)

(* C7: the tallies never exceed the number of guarantors, and a recorded   *)
(* ballot is never changed or cleared: a second castVote by a guarantor    *)
(* who has voted always fails, with AlreadyVoted whenever the challenge is *)
(* still in its voting window.                                             *)
C7_BallotsBoundedAndFinal ==
    [][\A id \in AllIds :
          LET vs == votingStates[id]
              vs2 == votingStates'[id]
          IN  /\ vs2.yesVotes + vs2.noVotes <= Len(vs2.guarantors)
              /\ vs.hasVoted \subseteq vs2.hasVoted
              /\ \A a \in vs.hasVoted : (a \in vs2.voteValue) <=> (a \in vs.voteValue)
              /\ (CalledOn(id) /\ last'.op = "castVote" /\ last'.caller \in vs.hasVoted) =>
                    /\ last'.err # "ok"
                    /\ vs2 = vs
                    /\ (challenges[id].state = FAILED_PENDING_INSURANCE
                        /\ now <= challenges[id].votingDeadline) =>
                            last'.err = "AlreadyVoted"]_vars

C7_Witness ==
    /\ last = Call("castVote", 1, "G1", "AlreadyVoted")
    /\ "G1" \in votingStates[1].hasVoted
    /\ votingStates[1].noVotes = 1

(* C8: the stored tallies equal a recount of the ballots: yesVotes is the  *)
(* number of guarantors with a recorded yes, noVotes the number with a     *)
(* recorded no, and every recorded ballot is a guarantor's.                *)
C8_TalliesMatchRecount ==
    \A id \in AllIds :
        LET vs == votingStates[id]
            gs == Range(vs.guarantors)
        IN  /\ vs.yesVotes = Cardinality({g \in gs : g \in vs.hasVoted /\ g \in vs.voteValue})
            /\ vs.noVotes = Cardinality({g \in gs : g \in vs.hasVoted /\ g \notin vs.voteValue})
            /\ vs.hasVoted \subseteq gs
            /\ vs.voteValue \subseteq vs.hasVoted

C8_Witness ==
    /\ votingStates[1].yesVotes = 1
    /\ votingStates[1].noVotes = 1
    /\ votingStates[1].hasVoted = {"G1", "G3"}
    /\ votingStates[1].voteValue = {"G3"}

(* C9: for every accepted guarantor count n in 1..10 the stored            *)
(* requiredVotes is the smallest strict majority of n (n=1 -> 1, n=3 -> 2, *)
(* n=10 -> 6), and no later step changes it.                               *)
C9_RequiredVotesIsStrictMajority ==
    [][\A id \in AllIds :
          challenges'[id].user # ZERO =>
              LET n == Len(votingStates'[id].guarantors)
                  r == votingStates'[id].requiredVotes
              IN  /\ n \in 1..10
                  /\ 2 * r > n
                  /\ 2 * (r - 1) <= n
                  /\ n = 1 => r = 1
                  /\ n = 3 => r = 2
                  /\ n = 10 => r = 6
                  /\ Exists(id) => r = votingStates[id].requiredVotes]_vars

C9_Witness ==
    /\ Len(votingStates[1].guarantors) = 10
    /\ votingStates[1].requiredVotes = 6
    /\ challenges[1].state = FAILED_FINAL
    /\ votingStates[1].noVotes = 3

(* C10: the accepted castVote that brings yesVotes to requiredVotes moves  *)
(* the challenge from voting to REMEDIATION_ACTIVE in that same step,      *)
(* whether or not the other guarantors have voted, and sets                *)
(* remediationDeadline to the time of the vote plus 7 days.                *)
C10_YesMajorityStartsRemediation ==
    [][\A id \in AllIds :
          (/\ CalledOn(id)
           /\ last'.op = "castVote"
           /\ last'.err = "ok"
           /\ votingStates'[id].yesVotes >= votingStates'[id].requiredVotes) =>
              /\ challenges[id].state = FAILED_PENDING_INSURANCE
              /\ votingStates[id].yesVotes < votingStates[id].requiredVotes
              /\ challenges'[id].state = REMEDIATION_ACTIVE
              /\ challenges'[id].remediationDeadline = now + (7 * 24 * 3600)
              /\ now' = now]_vars

C10_Witness ==
    /\ last = Call("castVote", 1, "G2", "ok")
    /\ challenges[1].state = REMEDIATION_ACTIVE
    /\ votingStates[1].hasVoted = {"G1", "G2"}
    /\ challenges[1].remediationDeadline = now + REMEDIATION_PERIOD

(* C11: an accepted castVote that leaves yesVotes below requiredVotes and  *)
(* makes noVotes exceed guarantors - requiredVotes moves the challenge to  *)
(* FAILED_FINAL in that same step; when neither threshold is met the       *)
(* challenge stays in its voting state.  With 5 guarantors the third no    *)
(* vote ends the challenge and every later vote fails with InvalidState;   *)
(* with 3 guarantors and one yes, the first no changes nothing and the     *)
(* second no ends the challenge.                                           *)
C11_NoMajorityForfeitsAtOnce ==
    [][\A id \in AllIds :
          LET vs == votingStates[id]
              vs2 == votingStates'[id]
              n == Len(vs2.guarantors)
              accepted == CalledOn(id) /\ last'.op = "castVote" /\ last'.err = "ok"
          IN  /\ accepted =>
                    /\ challenges[id].state = FAILED_PENDING_INSURANCE
                    /\ (vs2.yesVotes < vs2.requiredVotes
                        /\ vs2.noVotes > n - vs2.requiredVotes) =>
                            challenges'[id].state = FAILED_FINAL
                    /\ (vs2.yesVotes < vs2.requiredVotes
                        /\ vs2.noVotes <= n - vs2.requiredVotes) =>
                            challenges'[id].state = FAILED_PENDING_INSURANCE
                    /\ (n = 3 /\ vs.yesVotes = 1 /\ vs.noVotes = 0 /\ vs2.noVotes = 1) =>
                            challenges'[id].state = FAILED_PENDING_INSURANCE
                    /\ (n = 3 /\ vs.yesVotes = 1 /\ vs.noVotes = 1 /\ vs2.noVotes = 2) =>
                            challenges'[id].state = FAILED_FINAL
              /\ (n = 5 /\ vs.yesVotes = 0 /\ vs.noVotes = 3) =>
                    /\ challenges[id].state = FAILED_FINAL
                    /\ (CalledOn(id) /\ last'.op = "castVote") =>
                          (last'.err = "InvalidState" /\ UNCHANGED Storage)]_vars

C11_Witness ==
    /\ Len(votingStates[1].guarantors) = 5
    /\ votingStates[1].noVotes = 3
    /\ votingStates[1].hasVoted = {"G1", "G2", "G3"}
    /\ challenges[1].state = FAILED_FINAL
    /\ last = Call("castVote", 1, "G4", "InvalidState")

(* C12: for every list of 1..10 guarantors and every reachable pair of     *)
(* tallies, the early-exit test noVotes > guarantors - requiredVotes holds *)
(* exactly when a yes majority is out of reach, that is when yesVotes plus *)
(* the number of guarantors who have not voted is below requiredVotes; a   *)
(* vote still open has a yes majority within reach, and a vote closed by   *)
(* castVote without a yes majority has not.                                *)
C12_EarlyExitIffMajorityUnreachable ==
    \A id \in AllIds :
        Exists(id) =>
            LET vs == votingStates[id]
                n == Len(vs.guarantors)
                notYetVoted == n - Cardinality(vs.hasVoted)
                unreachable == vs.yesVotes + notYetVoted < vs.requiredVotes
            IN  /\ n \in 1..10
                /\ NoThresholdReached(vs) <=> unreachable
                /\ challenges[id].state = FAILED_PENDING_INSURANCE => ~unreachable
                /\ (/\ challenges[id].state = FAILED_FINAL
                    /\ last.op = "castVote" /\ last.id = id /\ last.err = "ok") =>
                        unreachable

C12_Witness ==
    /\ Len(votingStates[1].guarantors) = 10
    /\ votingStates[1].yesVotes = 5
    /\ votingStates[1].noVotes = 5
    /\ challenges[1].state = FAILED_FINAL
    /\ last = Call("castVote", 1, "G10", "ok")

(* C13: reportFailure succeeds only on an ACTIVE challenge, called by its  *)
(* owner at now >= endTime; it then sets the voting state and              *)
(* votingDeadline = now + 24 hours and nothing else.  On an ACTIVE         *)
(* challenge the owner fails with ChallengeNotEnded while now < endTime    *)
(* (so at endTime - 1) and succeeds at endTime, and every other caller     *)
(* fails with NotAuthorized; every failing call changes nothing.           *)
C13_ReportFailureGuards ==
    [][\A id \in AllIds :
          (CalledOn(id) /\ last'.op = "reportFailure") =>
              LET c == challenges[id]
                  caller == last'.caller
                  err == last'.err
              IN  /\ err = "ok" <=>
                        (Exists(id) /\ c.state = ACTIVE /\ caller = c.user /\ now >= c.endTime)
                  /\ err = "ok" =>
                        /\ challenges' =
                              [challenges EXCEPT ![id] =
                                  [c EXCEPT !.state = FAILED_PENDING_INSURANCE,
                                            !.votingDeadline = now + (24 * 3600)]]
                        /\ UNCHANGED <<votingStates, balance, transfers, now>>
                  /\ err # "ok" => UNCHANGED Storage
                  /\ ~Exists(id) => err = "ChallengeNotFound"
                  /\ (Exists(id) /\ c.state # ACTIVE) => err = "InvalidState"
                  /\ (Exists(id) /\ c.state = ACTIVE /\ caller # c.user) =>
                        err = "NotAuthorized"
                  /\ (Exists(id) /\ c.state = ACTIVE /\ caller = c.user /\ now < c.endTime) =>
                        err = "ChallengeNotEnded"]_vars

C13_Witness ==
    /\ last = Call("reportFailure", 1, USER, "ok")
    /\ now = challenges[1].endTime
    /\ challenges[1].state = FAILED_PENDING_INSURANCE
    /\ challenges[1].votingDeadline = challenges[1].endTime + VOTING_PERIOD

(* C14: castVote records a ballot only when the challenge is in its voting *)
(* state, now <= votingDeadline, the caller is one of its guarantors and   *)
(* has no ballot yet.  Otherwise it fails with the error of the first      *)
(* unmet condition (InvalidState, VotingPeriodEnded, AlreadyVoted,         *)
(* NotGuarantor) and leaves ballots, tallies and state unchanged.  A vote  *)
(* at now = votingDeadline is accepted, one at votingDeadline + 1 is not.  *)
C14_CastVoteGuards ==
    [][\A id \in AllIds :
          (CalledOn(id) /\ last'.op = "castVote" /\ Exists(id)) =>
              LET c == challenges[id]
                  vs == votingStates[id]
                  vs2 == votingStates'[id]
                  caller == last'.caller
                  err == last'.err
                  voting == c.state = FAILED_PENDING_INSURANCE
                  inTime == now <= c.votingDeadline
                  isGuarantor == caller \in Range(vs.guarantors)
                  unset == caller \notin vs.hasVoted
                  forfeits == vs.noVotes + 1 > Len(vs.guarantors) - vs.requiredVotes
              IN  /\ vs2 # vs => (voting /\ inTime /\ isGuarantor /\ unset /\ err = "ok")
                  /\ (voting /\ inTime /\ isGuarantor /\ unset) =>
                        \/ /\ err = "ok"
                           /\ caller \in vs2.hasVoted
                           /\ vs2.yesVotes + vs2.noVotes = vs.yesVotes + vs.noVotes + 1
                        \/ err = "TransferFailed" /\ forfeits
                  /\ ~voting => err = "InvalidState"
                  /\ (voting /\ ~inTime) => err = "VotingPeriodEnded"
                  /\ (voting /\ inTime /\ ~unset) => err = "AlreadyVoted"
                  /\ (voting /\ inTime /\ unset /\ ~isGuarantor) => err = "NotGuarantor"
                  /\ (voting /\ now = c.votingDeadline + 1) => err = "VotingPeriodEnded"
                  /\ err # "ok" => UNCHANGED Storage]_vars

C14_Witness ==
    /\ last = Call("castVote", 1, "G2", "ok")
    /\ now = challenges[1].votingDeadline
    /\ challenges[1].state = FAILED_PENDING_INSURANCE
    /\ votingStates[1].hasVoted = {"G2"}

(* C15: finalizeVoting succeeds only on a challenge in its voting state    *)
(* and at now > votingDeadline; at now <= votingDeadline it fails with     *)
(* VotingPeriodActive and changes nothing.  Its result depends on the      *)
(* stored tallies only, whoever calls: REMEDIATION_ACTIVE if yesVotes >=   *)
(* requiredVotes, FAILED_FINAL otherwise.  castVote is accepted only at    *)
(* now <= votingDeadline, so the two are never both possible.              *)
C15_FinalizeVotingDeterministic ==
    [][\A id \in AllIds :
          LET c == challenges[id]
              vs == votingStates[id]
              err == last'.err
              voting == c.state = FAILED_PENDING_INSURANCE
          IN  /\ (CalledOn(id) /\ last'.op = "finalizeVoting" /\ Exists(id)) =>
                    /\ err = "ok" => (voting /\ now > c.votingDeadline)
                    /\ ~voting => err = "InvalidState"
                    /\ (voting /\ now <= c.votingDeadline) => err = "VotingPeriodActive"
                    /\ (voting /\ now > c.votingDeadline) =>
                          \/ err = "ok"
                          \/ err = "TransferFailed" /\ vs.yesVotes < vs.requiredVotes
                    /\ err = "ok" =>
                          /\ challenges'[id] =
                                IF vs.yesVotes >= vs.requiredVotes
                                THEN [c EXCEPT !.state = REMEDIATION_ACTIVE,
                                               !.remediationDeadline = now + REMEDIATION_PERIOD]
                                ELSE [c EXCEPT !.state = FAILED_FINAL]
                          /\ votingStates' = votingStates
                    /\ err # "ok" => UNCHANGED Storage
              /\ (CalledOn(id) /\ last'.op = "castVote" /\ err = "ok") =>
                    now <= c.votingDeadline]_vars

C15_Witness ==
    /\ last = Call("finalizeVoting", 1, STRANGER, "ok")
    /\ now = challenges[1].votingDeadline + 1
    /\ challenges[1].state = FAILED_FINAL
    /\ votingStates[1].yesVotes = 1
    /\ votingStates[1].noVotes = 1

(* C16: completeChallenge on an ACTIVE or REMEDIATION_ACTIVE challenge     *)
(* succeeds exactly when the caller is one of its guarantors (at any time, *)
(* also before endTime) or its owner at now >= endTime, the payout         *)
(* transfers going through; the owner before endTime and every other       *)
(* caller fail with NotAuthorized, and no state or balance changes.        *)
C16_CompletionAuthorization ==
    [][\A id \in AllIds :
          LET c == challenges[id]
              caller == last'.caller
              err == last'.err
              authorized == \/ caller \in Range(votingStates[id].guarantors)
                            \/ caller = c.user /\ now >= c.endTime
          IN  (/\ CalledOn(id) /\ last'.op = "completeChallenge"
               /\ Exists(id) /\ c.state \in {ACTIVE, REMEDIATION_ACTIVE}) =>
                  /\ authorized <=> err \in {"ok", "TransferFailed"}
                  /\ ~authorized <=> err = "NotAuthorized"
                  /\ err = "ok" =>
                        /\ challenges'[id] = [c EXCEPT !.state = COMPLETED]
                        /\ balance'[c.user] # balance[c.user]
                  /\ err # "ok" => UNCHANGED Storage
                  /\ (caller = c.user /\ now < c.endTime) => err = "NotAuthorized"]_vars

C16_Witness ==
    /\ last = Call("completeChallenge", 1, "G3", "ok")
    /\ now < challenges[1].endTime
    /\ challenges[1].state = COMPLETED
    /\ balance[USER] = UserFunds

(* C17: finalizeRemediation, whoever calls, moves a REMEDIATION_ACTIVE     *)
(* challenge to FAILED_FINAL exactly when now > remediationDeadline;       *)
(* called at now <= remediationDeadline it fails with the error            *)
(* RemediationPeriodActive and changes nothing; called in any other state  *)
(* it fails with InvalidState.                                             *)
C17_FinalizeRemediationGuards ==
    [][\A id \in AllIds :
          LET c == challenges[id]
              err == last'.err
              remediation == c.state = REMEDIATION_ACTIVE
          IN  (CalledOn(id) /\ last'.op = "finalizeRemediation" /\ Exists(id)) =>
                  /\ err = "ok" => (remediation /\ now > c.remediationDeadline)
                  /\ (remediation /\ now > c.remediationDeadline) =>
                        err \in {"ok", "TransferFailed"}
                  /\ err = "ok" => challenges'[id] = [c EXCEPT !.state = FAILED_FINAL]
                  /\ (remediation /\ now <= c.remediationDeadline) =>
                        err = "RemediationPeriodActive"
                  /\ ~remediation => err = "InvalidState"
                  /\ err # "ok" => UNCHANGED Storage]_vars

----------------------------------------------------------------------------
(* Vocabulary of the createChallenge claims *)

\* The current step is the call createChallenge(id, gs, amount, ...) by the
\* user, the token accepting the inbound transfer or not.
CreateCall(id, gs, amount, tokenOk) ==
    CreateChallenge(id, USER, gs, amount, THIRTY_DAYS, "ipfs://challenge", tokenOk)

\* A guarantor list the specification rejects: empty, more than 10 entries,
\* the caller among them, or an identity listed twice.
RejectedList(gs, sender) ==
    \/ Len(gs) = 0
    \/ Len(gs) > 10
    \/ \E i \in 1..Len(gs) : gs[i] = sender
    \/ \E i, j \in 1..Len(gs) : i # j /\ gs[i] = gs[j]

\* Every stored guarantor list has 1..10 pairwise distinct entries, none of
\* them the owner.
StoredListsValid ==
    \A id \in AllIds :
        challenges'[id].user # ZERO =>
            LET gs == votingStates'[id].guarantors
            IN  /\ Len(gs) \in 1..10
                /\ \A i, j \in 1..Len(gs) : i # j => gs[i] # gs[j]
                /\ \A i \in 1..Len(gs) : gs[i] # challenges'[id].user

(* C18 as stated: createChallenge fails with InvalidGuarantors, creates no *)
(* record and moves no funds whenever the guarantor list is empty, has     *)
(* more than 10 entries, contains the caller or contains an identity       *)
(* twice; so every stored list has 1..10 distinct entries, none the owner. *)
C18_BadListFailsWithInvalidGuarantors ==
    [][/\ \A id \in env.ids, gs \in env.lists, a \in env.amounts, ok \in env.tokenOks :
             (/\ last'.op = "createChallenge"
              /\ RejectedList(gs, USER)
              /\ CreateCall(id, gs, a, ok)) =>
                 (last'.err = "InvalidGuarantors" /\ UNCHANGED Storage)
       /\ StoredListsValid]_vars

(* C18 as amended: createChallenge with such a list always fails, creates  *)
(* no record and moves no funds.  The error is InvalidGuarantors when the  *)
(* amount is within the deposit bounds and, for a list of 1..10 entries,   *)
(* the id is unused; an amount out of bounds fails with InvalidAmount      *)
(* first, and a list of 1..10 entries on an id in use fails with           *)
(* InvalidState first.  Every stored list has 1..10 distinct entries, none *)
(* of them the owner.                                                      *)
C18_BadListRejected ==
    [][/\ \A id \in env.ids, gs \in env.lists, a \in env.amounts, ok \in env.tokenOks :
             (/\ last'.op = "createChallenge"
              /\ RejectedList(gs, USER)
              /\ CreateCall(id, gs, a, ok)) =>
                 LET amountOk == QLe(MIN_DEPOSIT, a) /\ QLe(a, MAX_DEPOSIT)
                     countOk == Len(gs) \in 1..10
                 IN  /\ UNCHANGED Storage
                     /\ last'.err =
                           IF ~amountOk THEN "InvalidAmount"
                           ELSE IF countOk /\ Exists(id) THEN "InvalidState"
                           ELSE "InvalidGuarantors"
       /\ StoredListsValid]_vars

C18_Witness ==
    /\ last = Call("createChallenge", 1, USER, "InvalidGuarantors")
    /\ ~Exists(1)
    /\ balance[USER] = UserFunds
    /\ balance[ESCROW] = QZero

(* C19: createChallenge with an id that already exists, in whatever state, *)
(* fails with the error DuplicateChallenge, takes no funds from the caller *)
(* and leaves the existing challenge record, its voting record and its     *)
(* ballots unchanged.                                                      *)
C19_ExistingIdFailsWithDuplicateChallenge ==
    [][\A id \in AllIds :
          (CalledOn(id) /\ last'.op = "createChallenge" /\ Exists(id)) =>
              /\ last'.err = "DuplicateChallenge"
              /\ UNCHANGED Storage]_vars

(* C20: createChallenge accepts an amount exactly when MIN_DEPOSIT <=      *)
(* amount <= MAX_DEPOSIT, both bounds included: any other amount fails     *)
(* with InvalidAmount before any transfer or record creation, an amount    *)
(* within the bounds never does, and with a valid guarantor list, an       *)
(* unused id and a transfer that goes through it is stored.  Every stored  *)
(* challenge has its amount within the bounds.                             *)
C20_AmountWithinDepositBounds ==
    [][/\ \A id \in env.ids, gs \in env.lists, a \in env.amounts, ok \in env.tokenOks :
             (last'.op = "createChallenge" /\ CreateCall(id, gs, a, ok)) =>
                 LET inBounds == QLe(Qty(1, 0), a) /\ QLe(a, Qty(10000, 0))
                     listOk == ~RejectedList(gs, USER) /\ \A i \in 1..Len(gs) : gs[i] # ZERO
                 IN  /\ ~inBounds => (last'.err = "InvalidAmount" /\ UNCHANGED Storage)
                     /\ inBounds => last'.err # "InvalidAmount"
                     /\ (inBounds /\ listOk /\ ~Exists(id) /\ ok /\ QLe(a, balance[USER])) =>
                           /\ last'.err = "ok"
                           /\ challenges'[id].amount = a
                           /\ balance'[ESCROW] = QAdd(balance[ESCROW], a)
                           /\ balance'[USER] = QSub(balance[USER], a)
       /\ \A id \in AllIds :
             challenges'[id].user # ZERO =>
                 /\ QLe(Qty(1, 0), challenges'[id].amount)
                 /\ QLe(challenges'[id].amount, Qty(10000, 0))]_vars

C20_Witness ==
    /\ last = Call("createChallenge", 1, USER, "ok")
    /\ challenges[1].amount = Qty(10000, 0)
    /\ balance[ESCROW] = Qty(10000, 0)
    /\ balance[USER] = Qty(10000, 0)

(* C21: createChallenge is atomic with the inbound transfer.  If the       *)
(* transfer of the amount from the caller into custody fails, no challenge *)
(* or voting record is created; if it succeeds the record is created       *)
(* ACTIVE with amount equal to the value received, createdAt = now,        *)
(* endTime = now + duration, no deadline, no ballot and both tallies 0.    *)
C21_CreateAtomicWithTransfer ==
    [][\A id \in env.ids, gs \in env.lists, a \in env.amounts, ok \in env.tokenOks :
          (last'.op = "createChallenge" /\ CreateCall(id, gs, a, ok)) =>
              LET received == QSub(balance'[ESCROW], balance[ESCROW])
                  c2 == challenges'[id]
                  vs2 == votingStates'[id]
              IN  /\ ~ok => last'.err # "ok"
                  /\ last'.err # "ok" => UNCHANGED Storage
                  /\ last'.err = "TransferFailed" =>
                        (challenges'[id] = NoChallenge /\ votingStates'[id] = NoVotingState)
                  /\ last'.err = "ok" =>
                        /\ challenges[id] = NoChallenge
                        /\ received = a
                        /\ balance'[USER] = QSub(balance[USER], a)
                        /\ c2 = [user |-> USER, amount |-> received, state |-> ACTIVE,
                                 createdAt |-> now, endTime |-> now + THIRTY_DAYS,
                                 votingDeadline |-> 0, remediationDeadline |-> 0,
                                 metadataUri |-> "ipfs://challenge"]
                        /\ vs2.guarantors = gs
                        /\ vs2.requiredVotes = (Len(gs) \div 2) + 1
                        /\ vs2.hasVoted = {} /\ vs2.voteValue = {}
                        /\ vs2.yesVotes = 0 /\ vs2.noVotes = 0
                        /\ transfers' = transfers]_vars

C21_Witness ==
    /\ last = Call("createChallenge", 1, USER, "TransferFailed")
    /\ challenges[1] = NoChallenge
    /\ votingStates[1] = NoVotingState
    /\ balance[USER] = UserFunds

(* C22: a challenge is never marked resolved when its outbound transfer    *)
(* fails.  When the token refuses the transfers of a completeChallenge,    *)
(* castVote, finalizeVoting or finalizeRemediation call, no balance moves  *)
(* and the challenge does not become terminal, unless the call had no      *)
(* transfer to make (a forfeiture with no treasury configured); a call     *)
(* that fails on its transfer leaves state, deadlines, tallies and ballots *)
(* as they were, so the ballot of such a castVote is not recorded.         *)
C22_NoResolutionOnFailedTransfer ==
    [][\A id \in env.ids :
          LET s == last'.caller
              refused ==
                  \/ last'.op = "castVote" /\ \E v \in BOOLEAN : CastVote(id, s, v, FALSE)
                  \/ last'.op = "finalizeVoting" /\ FinalizeVoting(id, s, FALSE)
                  \/ last'.op = "completeChallenge" /\ CompleteChallenge(id, s, FALSE)
                  \/ last'.op = "finalizeRemediation" /\ FinalizeRemediation(id, s, FALSE)
          IN  /\ refused =>
                     /\ balance' = balance
                     /\ transfers' = transfers
                     /\ (Terminal(id)' /\ ~Terminal(id)) =>
                           (challenges'[id].state = FAILED_FINAL /\ treasury = ZERO)
              /\ (CalledOn(id) /\ last'.err = "TransferFailed") =>
                     /\ UNCHANGED Storage
                     /\ last'.caller \notin votingStates'[id].hasVoted \ votingStates[id].hasVoted]_vars

C22_Witness ==
    /\ last = Call("castVote", 1, "G2", "TransferFailed")
    /\ challenges[1].state = FAILED_PENDING_INSURANCE
    /\ votingStates[1].hasVoted = {"G1"}
    /\ votingStates[1].noVotes = 1
    /\ balance[ESCROW] = Qty(100, 0)

----------------------------------------------------------------------------
(* Vocabulary of the custody claims *)

\* The total of a sequence of payments.
RECURSIVE TotalOf(_)
TotalOf(pays) ==
    IF pays = <<>> THEN QZero ELSE QAdd(Head(pays).amount, TotalOf(Tail(pays)))

\* The total of f[id] over a set of ids.
RECURSIVE SumOver(_, _)
SumOver(ids, f) ==
    IF ids = {} THEN QZero
    ELSE LET id == CHOOSE i \in ids : TRUE
         IN  QAdd(f[id], SumOver(ids \ {id}, f))

Received == SumOver({id \in AllIds : Exists(id)}, [id \in AllIds |-> challenges[id].amount])

PaidOut == SumOver(AllIds, [id \in AllIds |-> TotalOf(transfers[id])])

Backing ==
    SumOver({id \in AllIds : Exists(id) /\ ~Terminal(id)},
            [id \in AllIds |-> challenges[id].amount])

(* C23: in every reachable state the custody balance equals the funds      *)
(* received minus the funds paid out and is at least the sum of the        *)
(* amounts of the challenges that are not terminal; a challenge is paid    *)
(* out at most its own amount, and only once it is terminal, so no         *)
(* disbursement draws on funds that back another challenge.                *)
C23_CustodyCoversOpenChallenges ==
    /\ QAdd(balance[ESCROW], PaidOut) = Received
    /\ QLe(Backing, balance[ESCROW])
    /\ \A id \in AllIds :
          /\ QLe(TotalOf(transfers[id]), challenges[id].amount)
          /\ ~Terminal(id) => transfers[id] = <<>>
    /\ SumOver(Accounts, balance) = UserFunds

C23_Witness ==
    /\ challenges[1].state = COMPLETED
    /\ challenges[1].amount = Qty(250, 0)
    /\ challenges[2].state = FAILED_PENDING_INSURANCE
    /\ challenges[2].amount = Qty(100, 0)
    /\ transfers[1] = <<Payment(ADMIN, Qty(6, 250000)), Payment(USER, Qty(243, 750000))>>
    /\ balance[ESCROW] = Qty(100, 0)

(* C24: a challenge never hangs in voting or remediation.  With a clock    *)
(* that keeps advancing and finalizeVoting and finalizeRemediation calls   *)
(* that are eventually made with their transfer going through, every       *)
(* challenge in its voting state eventually leaves it, and every challenge *)
(* in its voting state or in remediation eventually is COMPLETED or        *)
(* FAILED_FINAL.                                                           *)
C24_VotingAndRemediationEnd ==
    \A id \in AllIds :
        /\ (Exists(id) /\ challenges[id].state = FAILED_PENDING_INSURANCE)
              ~> (challenges[id].state # FAILED_PENDING_INSURANCE)
        /\ (Exists(id) /\ challenges[id].state \in {FAILED_PENDING_INSURANCE, REMEDIATION_ACTIVE})
              ~> Terminal(id)

C24_Witness ==
    /\ last = Call("finalizeRemediation", 1, STRANGER, "ok")
    /\ challenges[1].state = FAILED_FINAL
    /\ now = challenges[1].remediationDeadline + 1
    /\ votingStates[1].yesVotes = 2

----------------------------------------------------------------------------
(* Vocabulary of the independence claim *)

\* The call A is accepted: it does not revert.
Accepted(A) == A /\ last'.err = "ok"

\* A call on challenge a leaves the records of challenge b as they were.
Untouched(b) ==
    /\ challenges'[b] = challenges[b]
    /\ votingStates'[b] = votingStates[b]
    /\ transfers'[b] = transfers[b]

\* Every call on challenge b other than createChallenge is accepted after the
\* current step exactly if it was accepted before it.  An accepted call
\* computes the new records of b from the records of b, the clock and the
\* configuration only, so with Untouched the two orders give the same records.
SameCallsAccepted(b) ==
    \A s \in env.callers :
        /\ (ENABLED Accepted(ReportFailure(b, s)))
              <=> (ENABLED Accepted(ReportFailure(b, s)))'
        /\ \A v \in BOOLEAN :
              (ENABLED Accepted(CastVote(b, s, v, TRUE)))
                 <=> (ENABLED Accepted(CastVote(b, s, v, TRUE)))'
        /\ (ENABLED Accepted(FinalizeVoting(b, s, TRUE)))
              <=> (ENABLED Accepted(FinalizeVoting(b, s, TRUE)))'
        /\ (ENABLED Accepted(CompleteChallenge(b, s, TRUE)))
              <=> (ENABLED Accepted(CompleteChallenge(b, s, TRUE)))'
        /\ (ENABLED Accepted(FinalizeRemediation(b, s, TRUE)))
              <=> (ENABLED Accepted(FinalizeRemediation(b, s, TRUE)))'

\* The same for createChallenge(b, gs, amount, ...) by the user.
SameCreateAccepted(b, gs, amount) ==
    (ENABLED Accepted(CreateCall(b, gs, amount, TRUE)))
        <=> (ENABLED Accepted(CreateCall(b, gs, amount, TRUE)))'

(* C26 as stated: an operation on challenge a, successful or failing,      *)
(* leaves the challenge record, guarantor list, tallies and ballots of     *)
(* every other challenge b unchanged, and two operations on distinct ids   *)
(* yield the same final records in either order.                           *)
C26_OperationsCommute ==
    [][\A a \in AllIds : CalledOn(a) =>
          \A b \in AllIds \ {a} :
              /\ Untouched(b)
              /\ last'.err = "ok" =>
                    /\ SameCallsAccepted(b)
                    /\ \A gs \in env.lists, amount \in env.amounts :
                          SameCreateAccepted(b, gs, amount)]_vars

(* C26 as amended: an operation on challenge a leaves the records of every *)
(* other challenge b unchanged, and two operations on distinct ids yield   *)
(* the same final records in either order provided neither is a            *)
(* createChallenge whose deposit the caller's funds cover in one order     *)
(* only: creating a challenge lowers the caller's token balance and being  *)
(* paid out raises it.                                                     *)
C26_ChallengesIndependent ==
    [][\A a \in AllIds : CalledOn(a) =>
          \A b \in AllIds \ {a} :
              /\ Untouched(b)
              /\ last'.err = "ok" =>
                    /\ SameCallsAccepted(b)
                    /\ \A gs \in env.lists, amount \in env.amounts :
                          (QLe(amount, balance[USER]) <=> QLe(amount, balance'[USER])) =>
                              SameCreateAccepted(b, gs, amount)]_vars

C26_Witness ==
    /\ last = Call("castVote", 1, "G1", "ok")
    /\ challenges[1].state = REMEDIATION_ACTIVE
    /\ challenges[2].state = FAILED_PENDING_INSURANCE
    /\ votingStates[2].hasVoted = {}
    /\ votingStates[2].guarantors = <<"G1">>

(* C27: after creation a challenge's owner, amount, createdAt, endTime,    *)
(* metadata reference, guarantor list and requiredVotes are never          *)
(* modified; once the challenge is COMPLETED or FAILED_FINAL its state,    *)
(* deadlines, tallies and ballots are never modified either.               *)
C27_RecordsImmutable ==
    [][\A id \in AllIds :
          LET c == challenges[id]
              c2 == challenges'[id]
              vs == votingStates[id]
              vs2 == votingStates'[id]
          IN  /\ Exists(id) =>
                    /\ c2.user = c.user
                    /\ c2.amount = c.amount
                    /\ c2.createdAt = c.createdAt
                    /\ c2.endTime = c.endTime
                    /\ c2.metadataUri = c.metadataUri
                    /\ vs2.guarantors = vs.guarantors
                    /\ vs2.requiredVotes = vs.requiredVotes
              /\ Terminal(id) => (c2 = c /\ vs2 = vs)]_vars

C27_Witness ==
    /\ challenges[1].state = COMPLETED
    /\ challenges[1].remediationDeadline # 0
    /\ challenges[1].createdAt = StartTime
    /\ challenges[1].endTime = StartTime + THIRTY_DAYS
    /\ votingStates[1].guarantors = Prefix(NumGuarantors)
    /\ last = Call("castVote", 1, "G3", "InvalidState")

(* C28: ballots are cast only during voting.  While a challenge is ACTIVE, *)
(* and when it is COMPLETED straight from ACTIVE, every ballot is unset,   *)
(* both tallies are 0 and votingDeadline is unset; a ballot is recorded    *)
(* only in a step that starts in the voting state, never in                *)
(* REMEDIATION_ACTIVE, COMPLETED or FAILED_FINAL.                          *)
C28_BallotsOnlyDuringVoting ==
    [][\A id \in AllIds :
          LET c == challenges[id]
              vs == votingStates[id]
              vs2 == votingStates'[id]
              neverReported == c.state = ACTIVE \/ (c.state = COMPLETED /\ c.remediationDeadline = 0)
          IN  /\ (Exists(id) /\ neverReported) =>
                    /\ vs.hasVoted = {} /\ vs.voteValue = {}
                    /\ vs.yesVotes = 0 /\ vs.noVotes = 0
                    /\ c.votingDeadline = 0
              /\ (vs2.hasVoted # vs.hasVoted \/ vs2.voteValue # vs.voteValue
                  \/ vs2.yesVotes # vs.yesVotes \/ vs2.noVotes # vs.noVotes) =>
                    /\ c.state = FAILED_PENDING_INSURANCE
                    /\ c.votingDeadline # 0
                    /\ last'.op = "castVote"]_vars

C28_Witness ==
    /\ last = Call("castVote", 1, "G3", "InvalidState")
    /\ challenges[1].state = REMEDIATION_ACTIVE
    /\ now <= challenges[1].votingDeadline
    /\ votingStates[1].hasVoted = {"G1", "G2"}

(* C29: scenario B.  With guarantors [G1, G2, G3] and amount 100, after    *)
(* the owner reported failure at or after endTime, the yes vote of G2      *)
(* following the yes vote of G1, cast no later than votingDeadline, puts   *)
(* the challenge in REMEDIATION_ACTIVE in that step, G3 not having voted,  *)
(* with remediationDeadline = now + 7                                      *)
(* days; a completeChallenge by G1 before remediationDeadline, its         *)
(* transfers going through, then yields COMPLETED with the payout sent to  *)
(* the owner and nothing sent to the treasury.                             *)
C29_ScenarioB ==
    [][LET c == challenges[1]
           vs == votingStates[1]
           scenario == /\ vs.guarantors = <<"G1", "G2", "G3">>
                       /\ c.amount = Qty(100, 0)
                       /\ vs.hasVoted = {"G1"} /\ vs.voteValue = {"G1"}
           remediation == /\ vs.guarantors = <<"G1", "G2", "G3">>
                          /\ c.amount = Qty(100, 0)
                          /\ c.state = REMEDIATION_ACTIVE
                          /\ vs.hasVoted = {"G1", "G2"}
       IN  /\ (scenario /\ c.state = FAILED_PENDING_INSURANCE) =>
                 /\ c.votingDeadline >= c.endTime + VOTING_PERIOD
                 /\ \A v \in BOOLEAN :
                       (now <= c.votingDeadline /\ CastVote(1, "G2", v, TRUE) /\ v) =>
                       /\ last'.err = "ok"
                       /\ challenges'[1].state = REMEDIATION_ACTIVE
                       /\ challenges'[1].remediationDeadline = now + (7 * 86400)
                       /\ votingStates'[1].hasVoted = {"G1", "G2"}
                       /\ "G3" \notin votingStates'[1].hasVoted
           /\ (remediation /\ now < c.remediationDeadline
               /\ CompleteChallenge(1, "G1", TRUE)) =>
                 /\ last'.err = "ok"
                 /\ challenges'[1].state = COMPLETED
                 /\ NewPayments(1)[Len(NewPayments(1))] =
                       Payment(USER, QSub(c.amount, FeeOf(c.amount, platformFeeBps)))
                 /\ \A i \in 1..Len(transfers'[1]) : transfers'[1][i].to # TREASURY
                 /\ balance'[TREASURY] = balance[TREASURY]]_vars

C29_Witness ==
    /\ last = Call("completeChallenge", 1, "G1", "ok")
    /\ challenges[1].state = COMPLETED
    /\ now < challenges[1].remediationDeadline
    /\ votingStates[1].hasVoted = {"G1", "G2"}
    /\ votingStates[1].voteValue = {"G1", "G2"}
    /\ transfers[1] = <<Payment(USER, Qty(100, 0))>>
    /\ balance[TREASURY] = QZero

\* k times the quantity a
QTimes(a, k) ==
    LET n == a[2] * k
    IN  Qty(a[1] * k + (n \div DECIMALS_UNIT), n % DECIMALS_UNIT)

\* The three settings an administrator function writes
Config == <<platformFeeBps, feeRecipient, treasury>>

ConfigOps == {"setPlatformFee", "setFeeRecipient", "setTreasury"}

(* C30: the fee rate is at most 1000 basis points before and after every   *)
(* step; setPlatformFee with a value above 1000 is rejected, with "Fee too *)
(* high" when the administrator calls, and leaves the rate unchanged; a    *)
(* step changes the fee rate, the fee recipient or the treasury only when  *)
(* it is an accepted administrator call made by the administrator, and     *)
(* such a call by anyone else is rejected as unauthorized and changes      *)
(* nothing; on every completion the amount withheld from the owner is at   *)
(* most one tenth of the deposit.                                          *)
C30_FeeRateBounded ==
    [][/\ platformFeeBps <= 1000 /\ platformFeeBps' <= 1000
       /\ last'.op = "setPlatformFee" =>
             \A f \in env.fees : (f > 1000 /\ SetPlatformFee(last'.caller, f)) =>
                /\ last'.err = IF last'.caller = ADMIN THEN "Fee too high"
                               ELSE "OwnableUnauthorizedAccount"
                /\ platformFeeBps' = platformFeeBps
       /\ Config' # Config =>
             /\ last'.op \in ConfigOps
             /\ last'.caller = ADMIN
             /\ last'.err = "ok"
       /\ (last'.op \in ConfigOps /\ last' # last /\ last'.caller # ADMIN) =>
             /\ last'.err = "OwnableUnauthorizedAccount"
             /\ Config' = Config
       /\ \A id \in AllIds :
             (challenges[id].state # COMPLETED /\ challenges'[id].state = COMPLETED) =>
                LET c == challenges[id]
                    paid == NewPayments(id)[Len(NewPayments(id))]
                IN  /\ paid.to = c.user
                    /\ QLe(QTimes(QSub(c.amount, paid.amount), 10), c.amount)
                    /\ QLe(QTimes(FeeOf(c.amount, MAX_FEE_BPS), 10), c.amount)]_vars

C30_Witness ==
    /\ last = Call("setPlatformFee", 0, ADMIN, "Fee too high")
    /\ platformFeeBps = 250
    /\ challenges[1].state = COMPLETED
    /\ \E i \in 1..Len(transfers[1]) :
          transfers[1][i] = Payment(ADMIN, FeeOf(Qty(100, 0), 250))

(* C31: configuration changes apply prospectively only.  Once a challenge  *)
(* is COMPLETED or FAILED_FINAL no step, and in particular no change of    *)
(* the fee rate, the fee recipient or the treasury and no call that        *)
(* follows such a change, makes a further transfer for it or alters the    *)
(* payments logged for it; a step that changes the configuration moves no  *)
(* tokens and changes no challenge at all.                                 *)
C31_ConfigChangesProspective ==
    [][/\ \A id \in AllIds :
             Terminal(id) => /\ transfers'[id] = transfers[id]
                             /\ challenges'[id] = challenges[id]
       /\ Config' # Config => /\ transfers' = transfers
                              /\ balance' = balance
                              /\ challenges' = challenges
                              /\ votingStates' = votingStates]_vars

\* A challenge of 100 USDC completed at fee rate 0 and paid in full, after
\* which the administrator raised the fee rate to 250 and moved the treasury.
C31_Witness ==
    /\ challenges[1].state = COMPLETED
    /\ transfers[1] = <<Payment(USER, Qty(100, 0))>>
    /\ platformFeeBps = 250
    /\ treasury = ZERO
    /\ last.op \in ConfigOps /\ last.caller = ADMIN /\ last.err = "ok"

(* C32: a challenge in FAILED_PENDING_INSURANCE has yesVotes <             *)
(* requiredVotes and noVotes <= |guarantors| - requiredVotes, before and   *)
(* after every step; every accepted finalizeVoting ends in FAILED_FINAL,   *)
(* and a challenge enters REMEDIATION_ACTIVE only in an accepted castVote. *)
C32_VoteOpenWhilePending ==
    [][\A id \in AllIds :
          LET open(c, vs) ==
                  c.state = FAILED_PENDING_INSURANCE =>
                     /\ vs.yesVotes < vs.requiredVotes
                     /\ vs.noVotes <= Len(vs.guarantors) - vs.requiredVotes
          IN  /\ open(challenges[id], votingStates[id])
              /\ open(challenges'[id], votingStates'[id])
              /\ (CalledOn(id) /\ last'.op = "finalizeVoting" /\ last'.err = "ok") =>
                    challenges'[id].state = FAILED_FINAL
              /\ (challenges[id].state # REMEDIATION_ACTIVE
                  /\ challenges'[id].state = REMEDIATION_ACTIVE) =>
                    /\ last' = Call("castVote", id, last'.caller, "ok")
                    /\ last'.caller \in votingStates'[id].voteValue]_vars

\* finalizeVoting accepted after the deadline on a vote of five guarantors
\* with two yes votes and two no votes: one short of either threshold.
C32_Witness ==
    /\ last.op = "finalizeVoting" /\ last.err = "ok" /\ last.id = 1
    /\ challenges[1].state = FAILED_FINAL
    /\ Len(votingStates[1].guarantors) = 5
    /\ votingStates[1].yesVotes = 2
    /\ votingStates[1].noVotes = 2

(* C33: whenever a challenge is in REMEDIATION_ACTIVE, now >= endTime      *)
(* holds, so completeChallenge admits the owner: a completeChallenge by    *)
(* the owner in that state is never refused as unauthorized, and when its  *)
(* transfers go through it moves the challenge to COMPLETED and pays the   *)
(* owner, no guarantor having called completeChallenge.                    *)
C33_OwnerCompletesInRemediation ==
    [][\A id \in AllIds :
          LET c == challenges[id]
          IN  c.state = REMEDIATION_ACTIVE =>
                 /\ now >= c.endTime
                 /\ CanUserComplete(c, c.user)
                 /\ \A ok \in env.tokenOks :
                       CompleteChallenge(id, c.user, ok) =>
                          /\ last'.err \in {"ok", "TransferFailed"}
                          /\ ok => last'.err = "ok"
                          /\ last'.err = "ok" =>
                                /\ challenges'[id].state = COMPLETED
                                /\ NewPayments(id)[Len(NewPayments(id))] =
                                      Payment(c.user,
                                              QSub(c.amount,
                                                   FeeOf(c.amount, platformFeeBps)))]_vars

\* The owner completed a challenge that the yes votes of G1 and G2 had put in
\* remediation, and received the deposit.
C33_Witness ==
    /\ last = Call("completeChallenge", 1, USER, "ok")
    /\ challenges[1].state = COMPLETED
    /\ challenges[1].remediationDeadline # 0
    /\ votingStates[1].voteValue = {"G1", "G2"}
    /\ transfers[1] = <<Payment(USER, Qty(100, 0))>>

\* The callers completeChallenge admits on a challenge in remediation
Completers(id) ==
    {s \in env.callers : s = challenges[id].user \/ IsGuarantor(votingStates[id], s)}

(* C34: completeChallenge does not read remediationDeadline.  On a         *)
(* challenge in REMEDIATION_ACTIVE with now > remediationDeadline a        *)
(* completeChallenge by the owner or a guarantor and a finalizeRemediation *)
(* by any caller both pass every guard and can pay from custody, and each  *)
(* succeeds when taken; the one applied decides the outcome,               *)
(* COMPLETED with amount - fee paid to the owner or FAILED_FINAL with the  *)
(* amount paid to the treasury when one is configured and nothing paid to  *)
(* the owner; after either, with the clock still past remediationDeadline, *)
(* both calls fail with InvalidState.                                      *)
C34_CompletionRacesForfeiture ==
    [][\A id \in AllIds :
          LET c == challenges[id]
              past == c.remediationDeadline # 0 /\ now > c.remediationDeadline
          IN  /\ (c.state = REMEDIATION_ACTIVE /\ past) =>
                    /\ \A s \in Completers(id) :
                          /\ CompletableState(c)
                          /\ IsGuarantor(votingStates[id], s) \/ CanUserComplete(c, s)
                          /\ TransfersSucceed(CompletePayments(c), TRUE)
                          /\ (last'.op = "completeChallenge" /\ last'.caller = s
                              /\ CompleteChallenge(id, s, TRUE)) =>
                                /\ last'.err = "ok"
                                /\ challenges'[id].state = COMPLETED
                                /\ NewPayments(id)[Len(NewPayments(id))] =
                                      Payment(c.user,
                                              QSub(c.amount,
                                                   FeeOf(c.amount, platformFeeBps)))
                                /\ \A i \in 1..Len(transfers'[id]) :
                                      transfers'[id][i].to # TREASURY
                    /\ \A s \in env.callers :
                          /\ TransfersSucceed(ForfeitPayments(c), TRUE)
                          /\ (last'.op = "finalizeRemediation" /\ last'.caller = s
                              /\ FinalizeRemediation(id, s, TRUE)) =>
                                /\ last'.err = "ok"
                                /\ challenges'[id].state = FAILED_FINAL
                                /\ NewPayments(id) =
                                      IF treasury # ZERO
                                      THEN <<Payment(treasury, c.amount)>> ELSE <<>>
                                /\ \A i \in 1..Len(transfers'[id]) :
                                      transfers'[id][i].to # c.user
              /\ (/\ Terminal(id) /\ past
                  /\ CalledOn(id)
                  /\ last'.op \in {"completeChallenge", "finalizeRemediation"}) =>
                    /\ last'.err = "InvalidState"
                    /\ UNCHANGED Storage]_vars

\* After remediationDeadline a guarantor completed the challenge and the
\* finalizeRemediation that came second was refused.
C34_Witness ==
    /\ last = Call("finalizeRemediation", 1, STRANGER, "InvalidState")
    /\ challenges[1].state = COMPLETED
    /\ challenges[1].remediationDeadline # 0
    /\ now > challenges[1].remediationDeadline
    /\ transfers[1] = <<Payment(USER, Qty(100, 0))>>
    /\ balance[TREASURY] = QZero

\* Challenge id was forfeited while no treasury was configured.
Stranded(id) ==
    Exists(id) /\ challenges[id].state = FAILED_FINAL /\ transfers[id] = <<>>

(* C35: a step that moves a challenge to FAILED_FINAL while the treasury   *)
(* is the zero address makes no transfer and leaves every balance as it    *)
(* was, the full amount staying in custody; from then on no step makes a   *)
(* transfer for that challenge, changes its state or takes custody below   *)
(* its amount, also after a treasury has been configured.                  *)
C35_UnsetTreasuryLocksDeposit ==
    [][\A id \in AllIds :
          LET c == challenges[id]
          IN  /\ (c.state # FAILED_FINAL /\ challenges'[id].state = FAILED_FINAL
                  /\ treasury = ZERO) =>
                    /\ NewPayments(id) = <<>>
                    /\ balance' = balance
                    /\ QLe(c.amount, balance'[ESCROW])
                    /\ Stranded(id)'
              /\ Stranded(id) =>
                    /\ Stranded(id)'
                    /\ QLe(c.amount, balance[ESCROW])
                    /\ QLe(c.amount, balance'[ESCROW])
                    /\ \A a \in Accounts \ {ESCROW} : balance'[a] = balance[a]]_vars

\* A forfeited deposit still in custody after the administrator configured a
\* treasury and finalizeRemediation was tried again.
C35_Witness ==
    /\ Stranded(1)
    /\ treasury = TREASURY
    /\ balance[ESCROW] = Qty(100, 0)
    /\ balance[TREASURY] = QZero
    /\ last = Call("finalizeRemediation", 1, STRANGER, "InvalidState")

(* C36: a completion made while the fee is nonzero and the fee recipient   *)
(* is the zero address makes one transfer only, amount - fee to the owner: *)
(* the owner is charged the fee, the outflow for the challenge is strictly *)
(* less than the amount, and the fee stays in custody in every later       *)
(* state, also after a fee recipient has been configured.                  *)
C36_UnsetRecipientKeepsFee ==
    [][\A id \in AllIds :
          LET c == challenges[id]
              fee == FeeOf(c.amount, platformFeeBps)
              kept == QSub(c.amount, TotalOf(transfers[id]))
          IN  /\ (c.state # COMPLETED /\ challenges'[id].state = COMPLETED
                  /\ QLt(QZero, fee) /\ feeRecipient = ZERO) =>
                    /\ NewPayments(id) = <<Payment(c.user, QSub(c.amount, fee))>>
                    /\ QLt(TotalOf(transfers'[id]), c.amount)
                    /\ balance'[ESCROW] = QSub(balance[ESCROW], QSub(c.amount, fee))
                    /\ balance'[c.user] = QAdd(balance[c.user], QSub(c.amount, fee))
                    /\ \A a \in Accounts \ {ESCROW, c.user} : balance'[a] = balance[a]
              /\ (c.state = COMPLETED /\ QLt(QZero, kept)) =>
                    /\ transfers'[id] = transfers[id]
                    /\ challenges'[id] = c
                    /\ QLe(kept, balance[ESCROW])
                    /\ QLe(kept, balance'[ESCROW])]_vars

\* A completion at 250 basis points without a fee recipient: the owner got
\* 97.5 of 100 USDC, and the 2.5 USDC are still in custody after the
\* administrator configured a fee recipient.
C36_Witness ==
    /\ challenges[1].state = COMPLETED
    /\ transfers[1] = <<Payment(USER, Qty(97, 500000))>>
    /\ balance[ESCROW] = Qty(2, 500000)
    /\ balance[ADMIN] = QZero
    /\ feeRecipient = ADMIN
    /\ last = Call("setFeeRecipient", 0, ADMIN, "ok")

(* C37: an ACTIVE challenge leaves ACTIVE only by an accepted              *)
(* reportFailure of the owner at or after endTime, an accepted             *)
(* completeChallenge of the owner at or after endTime, or an accepted      *)
(* completeChallenge of a guarantor.  A reportFailure by anyone else is    *)
(* refused as unauthorized, finalizeVoting, finalizeRemediation and        *)
(* castVote are refused with InvalidState, and every other step, the clock *)
(* advancing included, leaves the challenge ACTIVE with its record and its *)
(* funds in custody as they were, however late the clock stands.           *)
C37_ActiveHasNoPermissionlessExit ==
    [][\A id \in AllIds :
          LET c == challenges[id]
              vs == votingStates[id]
              s == last'.caller
              byOwner == s = c.user /\ now >= c.endTime
              exit == /\ CalledOn(id) /\ last'.err = "ok"
                      /\ \/ /\ last'.op = "reportFailure" /\ byOwner
                            /\ challenges'[id].state = FAILED_PENDING_INSURANCE
                         \/ /\ last'.op = "completeChallenge"
                            /\ byOwner \/ IsGuarantor(vs, s)
                            /\ challenges'[id].state = COMPLETED
          IN  (Exists(id) /\ c.state = ACTIVE) =>
                 /\ challenges'[id].state # ACTIVE => exit
                 /\ ~exit => /\ challenges'[id] = c
                             /\ votingStates'[id] = vs
                             /\ transfers'[id] = transfers[id]
                             /\ balance' = balance
                 /\ (CalledOn(id) /\ last'.op = "reportFailure" /\ s # c.user) =>
                       last'.err = "NotAuthorized"
                 /\ (CalledOn(id) /\ last'.op \in {"castVote", "finalizeVoting",
                                                  "finalizeRemediation"}) =>
                       last'.err = "InvalidState"
                 /\ (CalledOn(id) /\ last'.op = "completeChallenge"
                     /\ ~IsGuarantor(vs, s) /\ s # c.user) =>
                       last'.err = "NotAuthorized"]_vars

\* A year after endTime the challenge is still ACTIVE with its deposit in
\* custody, and the guarantor's reportFailure has just been refused.
C37_Witness ==
    /\ challenges[1].state = ACTIVE
    /\ now = challenges[1].endTime + (365 * 86400)
    /\ balance[ESCROW] = challenges[1].amount
    /\ last = Call("reportFailure", 1, "G1", "NotAuthorized")

(* C38: the fee rate, the fee recipient and the treasury are read when a   *)
(* challenge is resolved.  A step into COMPLETED deducts the fee at the    *)
(* rate in force in that step and pays it to the fee recipient in force,   *)
(* and a step into FAILED_FINAL pays the treasury in force, whatever they  *)
(* were when the challenge was created; and the administrator can change   *)
(* each of them while the challenge exists and is not terminal.            *)
C38_ConfigReadAtResolution ==
    [][\A id \in AllIds :
          LET c == challenges[id]
              fee == FeeOf(c.amount, platformFeeBps)
              paysFee == QLt(QZero, fee) /\ feeRecipient # ZERO
          IN  /\ (c.state # COMPLETED /\ challenges'[id].state = COMPLETED) =>
                    /\ NewPayments(id) =
                          (IF paysFee THEN <<Payment(feeRecipient, fee)>> ELSE <<>>)
                          \o <<Payment(c.user, QSub(c.amount, fee))>>
                    /\ balance'[c.user] = QAdd(balance[c.user], QSub(c.amount, fee))
                    /\ (paysFee /\ feeRecipient # c.user) =>
                          balance'[feeRecipient] = QAdd(balance[feeRecipient], fee)
              /\ (c.state # FAILED_FINAL /\ challenges'[id].state = FAILED_FINAL) =>
                    /\ NewPayments(id) =
                          IF treasury # ZERO THEN <<Payment(treasury, c.amount)>>
                          ELSE <<>>
                    /\ treasury # ZERO =>
                          balance'[treasury] = QAdd(balance[treasury], c.amount)
              /\ (Exists(id) /\ ~Terminal(id)) =>
                    \A f \in env.fees, r \in env.feeRecipients, t \in env.treasuries :
                       /\ SetPlatformFee(ADMIN, f) => (f <= MAX_FEE_BPS => platformFeeBps' = f)
                       /\ SetFeeRecipient(ADMIN, r) => feeRecipient' = r
                       /\ SetTreasury(ADMIN, t) => treasury' = t]_vars

\* A challenge created at fee rate 0 and still ACTIVE a year after endTime was
\* completed after the administrator set the rate to 250: the fee of 2.5 USDC
\* was deducted from its 100 USDC.
C38_Witness ==
    /\ challenges[1].state = COMPLETED
    /\ now >= challenges[1].endTime + (365 * 86400)
    /\ transfers[1] = <<Payment(ADMIN, Qty(2, 500000)), Payment(USER, Qty(97, 500000))>>
    /\ balance[ADMIN] = Qty(2, 500000)

\* How far a state is along the life of a challenge.
Progress(state) ==
    IF state = ACTIVE THEN 0
    ELSE IF state = FAILED_PENDING_INSURANCE THEN 1
    ELSE IF state = REMEDIATION_ACTIVE THEN 2
    ELSE 3

(* C39: every change of state of an existing challenge moves it forward in *)
(* the order ACTIVE, FAILED_PENDING_INSURANCE, REMEDIATION_ACTIVE,         *)
(* terminal, so that it changes state at most three times and enters       *)
(* FAILED_PENDING_INSURANCE and REMEDIATION_ACTIVE at most once each;      *)
(* votingDeadline and remediationDeadline are written only from 0 to a     *)
(* nonzero value, on entering FAILED_PENDING_INSURANCE and                 *)
(* REMEDIATION_ACTIVE respectively, hence at most once; no ballot is ever  *)
(* removed and no tally ever decreases.                                    *)
C39_BoundedProgress ==
    [][\A id \in AllIds :
          LET c == challenges[id]
              c2 == challenges'[id]
              vs == votingStates[id]
              vs2 == votingStates'[id]
          IN  Exists(id) =>
                 /\ c2.state # c.state => Progress(c2.state) > Progress(c.state)
                 /\ (c2.state = FAILED_PENDING_INSURANCE /\ c.state # c2.state) =>
                       /\ c.state = ACTIVE
                       /\ vs.hasVoted = {} /\ vs.yesVotes = 0 /\ vs.noVotes = 0
                 /\ (c2.state = REMEDIATION_ACTIVE /\ c.state # c2.state) =>
                       c.state = FAILED_PENDING_INSURANCE
                 /\ c2.votingDeadline # c.votingDeadline =>
                       /\ c.votingDeadline = 0 /\ c2.votingDeadline = now + VOTING_PERIOD
                       /\ c.state = ACTIVE /\ c2.state = FAILED_PENDING_INSURANCE
                 /\ c2.remediationDeadline # c.remediationDeadline =>
                       /\ c.remediationDeadline = 0
                       /\ c2.remediationDeadline = now + REMEDIATION_PERIOD
                       /\ c.state = FAILED_PENDING_INSURANCE
                       /\ c2.state = REMEDIATION_ACTIVE
                 /\ c2.state = FAILED_PENDING_INSURANCE => c2.votingDeadline # 0
                 /\ c2.state = REMEDIATION_ACTIVE => c2.remediationDeadline # 0
                 /\ vs.hasVoted \subseteq vs2.hasVoted
                 /\ vs.voteValue \subseteq vs2.voteValue
                 /\ vs.yesVotes <= vs2.yesVotes /\ vs.noVotes <= vs2.noVotes]_vars

\* A challenge that changed state three times: reported, voted into
\* remediation and forfeited after remediationDeadline, its ballots kept.
C39_Witness ==
    /\ challenges[1].state = FAILED_FINAL
    /\ challenges[1].votingDeadline # 0
    /\ challenges[1].remediationDeadline # 0
    /\ votingStates[1].voteValue = {"G1", "G3"}
    /\ votingStates[1].hasVoted = {"G1", "G2", "G3"}
    /\ last = Call("finalizeRemediation", 1, "G2", "ok")

====
